---- MODULE Spec2Model ----
(***************************************************************************)
(* SnapMaster: the region-selection overlay (AreaSelector), the capture    *)
(* operations of ScreenshotManager with their window-capture strategy      *)
(* chain, and the foreground-application detector they query.              *)
(*                                                                         *)
(* Every capture_* call runs in a thread of its own (the GUI and the hotkey*)
(* manager start one thread per trigger), so a call is a frame call[t] of  *)
(* thread t that advances in steps; a step is a stretch of the method that *)
(* touches shared state (screen, files, flags, statistics) at most at one  *)
(* place.                                                                  *)
(***************************************************************************)
EXTENDS Integers, Sequences, FiniteSets, TLC

\* ---------------------------------------------------------------- bounds
NumThreads == 2
MaxCalls == 2
MaxScreen == 1
MaxTime == 2
MaxLen == 3
MaxLoops == 2
MaxTriggers == 3
TicksPerSecond == 2
ScreenW == 64
ScreenH == 56
OutOfScreen == 7

\* ------------------------------------------------------ program constants
MinSelection == 10
RevealThreshold == 5
MinImageSide == 10
SampleSide == 50
MinWindowSide == 50
OffscreenTolerance == 100
BorderWidth == 8
TitleHeight == 32
CacheDuration == 1
MaxHistory == 50
KeptHistory == 25
MaxFilename == 50
InvisibleBorder == 8
MinEstimatedBorder == 2
MinEstimatedTitle == 30
DefaultWidth == 800
DefaultHeight == 600
JoinTimeout == 3
MaxUpdateCallbacks == 2
FullscreenTolerance == 10
FallbackWidth == 1800
FallbackHeight == 1000
FallbackOrigin == 10
MainWindowSide == 100
DefaultThreshold == 500
ScreenshotThreshold == 300
RestoreDelay == 60
MaxDetections == 5
FilledHistory == 48

Threads == 1..NumThreads
CallIds == 1..MaxCalls
ScreenContents == 0..MaxScreen
SamplePixels == SampleSide * SampleSide

\* ------------------------------------------------------------- sentinels
NoSnapshot == -1
NoRegion == <<>>
NoImage == [src |-> "none", content |-> 0, x |-> 0, y |-> 0, w |-> 0, h |-> 0, nonblack |-> 0]
NoPath == [folder |-> "", prefix |-> <<>>, stamp |-> 0, suffix |-> <<>>, ext |-> ""]
NoApp == [name |-> <<>>, pid |-> 0, window_title |-> <<>>, window_rect |-> <<0, 0, 0, 0>>]
NoProbe == [fn |-> "none", done |-> FALSE]

\* AppDetector monitoring. Poll loops are the threads start_monitoring
\* creates; loop 0 stands for monitor_thread = None. Times are in seconds.
LoopIds == 1..MaxLoops
PollIntervals == {2, 4}
IdleLoop == [pc |-> "none", interval |-> 0, slept |-> 0, last_app_name |-> <<>>,
             current_app |-> NoApp, polled |-> 0]
NoMonitor ==
    [monitoring |-> FALSE, monitor_thread |-> 0, current_app |-> NoApp,
     loops |-> [l \in LoopIds |-> IdleLoop],
     caller |-> [pc |-> "idle", waited |-> 0], starts |-> 0,
     returned |-> "none", update_callbacks |-> <<>>, notified |-> <<>>]

\* HotkeyManager. hotkey_callbacks[action] is absent until register_hotkey
\* creates the list; an entry is a weak reference to its target.
DefaultActions ==
    <<"fullscreen_capture", "window_capture", "area_capture", "quick_capture">>
HotkeyActions == {DefaultActions[i] : i \in 1..Len(DefaultActions)}
NoCallbacks == [present |-> FALSE, refs |-> <<>>]
NoTrigger == [action |-> "none", debounced |-> FALSE, invoked |-> {}]
NoHotkeys ==
    [pc |-> "setup", hotkey_callbacks |-> [a \in HotkeyActions |-> NoCallbacks],
     active_hotkeys |-> {}, monitoring |-> FALSE,
     last_trigger_time |-> [a \in HotkeyActions |-> -1],
     stats |-> [total_triggers |-> 0, successful_triggers |-> 0,
                blocked_repeats |-> 0],
     attached |-> {}, trigger |-> NoTrigger]

MemSamples == {1}
Formats == {"PNG", "JPEG"}
Folders == {"", "custom"}

AlreadyActiveMsg == "Une sélection de zone est déjà en cours"
NoActiveAppMsg == "Impossible de détecter l'application active"
AppNotActiveMsg == "Application non active"

\* A thread that is not inside get_current_app.
IdleUpdate == [pc |-> "idle", app_info |-> NoApp]
\* MemoryManager(): the configured threshold, no restore thread. Thresholds
\* are in thousandths of a megabyte, so that 0.6 times one is exact.
Megabytes(mb) == mb * 1000
NoMemory ==
    [memory_threshold_mb |-> Megabytes(DefaultThreshold), restorers |-> <<>>,
     optimized |-> 0]
\* Before SettingsManager(): no dictionary exists yet.
EmptyDict == [k \in {} |-> ""]
NoFile == [absent |-> TRUE]
NoSettings ==
    [constructed |-> FALSE, heap |-> EmptyDict, config |-> EmptyDict,
     file |-> NoFile, last |-> "none"]

VARIABLES
    screen,                 \* what the live screen shows (a content id)
    now,                    \* wall clock, in ticks
    files,                  \* the file system: path -> image written there
    image_format,           \* capture_settings['image_format']
    windows_available,      \* WINDOWS_AVAILABLE of screenshot_manager.py
    foreground,             \* the window the OS reports as foreground
    cached_app,             \* AppDetector.cached_app
    last_detection_time,    \* AppDetector.last_detection_time
    app_history,            \* AppDetector.app_history
    area_selection_active,  \* ScreenshotManager._area_selection_active
    area_selection_lock,    \* owner of _area_selection_lock, 0 when free
    app_active,             \* ScreenshotManager._app_active
    capture_callbacks,      \* ScreenshotManager.capture_callbacks
    error_callbacks,        \* ScreenshotManager.error_callbacks
    stats,                  \* ScreenshotManager.stats
    call,                   \* the frame of the capture_* call of each thread
    selector,               \* the AreaSelector of the call of each thread
    callback_cell,          \* per call: the closure variable `callback`
    notifiers,              \* notifier threads started and not yet run
    fired,                  \* the callbacks invoked, one record per invocation
    session,                \* history of each call: see NewSession
    ncalls,                 \* number of capture_* calls made so far
    probe,                  \* a function under evaluation: input and result
    monitor,                \* AppDetector monitoring: flag, thread, poll loops
    hotkeys,                \* the HotkeyManager and the start-up of the GUI
    detections,             \* the successful detections so far, in order
    updating,               \* per thread: its position in get_current_app
    memory,                 \* the MemoryManager and its restore threads
    settings                \* the SettingsManager: its dictionaries, its file

vars == <<screen, now, files, image_format, windows_available, foreground,
          cached_app, last_detection_time, app_history,
          area_selection_active, area_selection_lock, app_active,
          capture_callbacks, error_callbacks, stats, call, selector,
          callback_cell, notifiers, fired, session, ncalls, probe, monitor,
          hotkeys, detections, updating, memory, settings>>

envVars == <<screen, now, image_format, windows_available, foreground>>
detectorVars == <<cached_app, last_detection_time, app_history>>
guardVars == <<area_selection_active, area_selection_lock>>
callbackVars == <<capture_callbacks, error_callbacks, app_active>>
notifyVars == <<callback_cell, notifiers, fired>>
\* What only the detector threads and the memory manager touch.
sideVars == <<detections, updating, memory, settings>>
\* What no capture operation touches.
serviceVars == <<probe, monitor, hotkeys, sideVars>>
\* What only the capture operations and their environment touch.
captureVars == <<screen, now, files, image_format, windows_available,
                 foreground, cached_app, last_detection_time, app_history,
                 area_selection_active, area_selection_lock, app_active,
                 capture_callbacks, error_callbacks, stats, call, selector,
                 callback_cell, notifiers, fired, session, ncalls>>
\* What an evaluation of a function, the monitoring and the hotkeys leave.
probeFrame == <<captureVars, monitor, hotkeys, sideVars>>
monitorFrame == <<captureVars, probe, hotkeys, sideVars>>
hotkeyFrame == <<screen, files, image_format, windows_available, foreground,
                 cached_app, last_detection_time, app_history,
                 area_selection_active, area_selection_lock, app_active,
                 capture_callbacks, error_callbacks, stats, call, selector,
                 callback_cell, notifiers, fired, session, ncalls, probe,
                 monitor, sideVars>>

Min(a, b) == IF a < b THEN a ELSE b
Max(a, b) == IF a > b THEN a ELSE b

\* ------------------------------------------------------------ AreaSelector
FreshSelector ==
    [root |-> FALSE, canvas |-> {}, selected_area |-> NoRegion,
     frozen_screenshot |-> NoSnapshot, darkened_screenshot |-> FALSE,
     tk_image_dark |-> FALSE, tk_image_original |-> FALSE,
     start_x |-> 0, start_y |-> 0, selecting |-> FALSE,
     selection_confirmed |-> FALSE]

SelectionTags ==
    {"selection_border", "selection_info", "selection_corners",
     "revealed_area", "confirmation"}

ClearSelection(canvas) == canvas \ SelectionTags

\* The rectangle between the anchor and the point (x2, y2).
NormalizedRect(x1, y1, x2, y2) ==
    <<Min(x1, x2), Min(y1, y2),
      Max(x1, x2) - Min(x1, x2), Max(y1, y2) - Min(y1, y2)>>

PrepareImages(s, content) ==
    [s EXCEPT !.frozen_screenshot = content, !.darkened_screenshot = TRUE]

CreateSelectionInterface(s) ==
    [s EXCEPT !.root = TRUE, !.tk_image_dark = TRUE, !.tk_image_original = TRUE,
              !.canvas = {"background_dark", "instructions"}]

CleanupSelectionInterface(s) ==
    [s EXCEPT !.root = FALSE, !.canvas = {},
              !.tk_image_dark = FALSE, !.tk_image_original = FALSE,
              !.frozen_screenshot = NoSnapshot, !.darkened_screenshot = FALSE]

OnClickSel(s, x, y) ==
    [s EXCEPT !.start_x = x, !.start_y = y, !.selecting = TRUE,
              !.canvas = ClearSelection(@) \ {"instructions"}]

OnDragSel(s, x, y) ==
    LET r == NormalizedRect(s.start_x, s.start_y, x, y)
    IN  [s EXCEPT !.canvas =
            IF r[3] > RevealThreshold /\ r[4] > RevealThreshold
            THEN ClearSelection(@) \cup {"revealed_area", "selection_border",
                                         "selection_info", "selection_corners"}
            ELSE ClearSelection(@)]

\* Mutant: a rectangle of exactly the minimum size is stored too.
OnReleaseAtThreshold(s, x, y) ==
    LET r == NormalizedRect(s.start_x, s.start_y, x, y)
    IN  IF r[3] >= MinSelection /\ r[4] >= MinSelection
        THEN [s EXCEPT !.selecting = FALSE, !.selected_area = r,
                       !.canvas = @ \cup {"confirmation"}]
        ELSE [s EXCEPT !.selecting = FALSE,
                       !.canvas = ClearSelection(@) \cup {"instructions"}]

OnReleaseSel(s, x, y) ==
    LET r == NormalizedRect(s.start_x, s.start_y, x, y)
    IN  IF r[3] > MinSelection /\ r[4] > MinSelection
        THEN [s EXCEPT !.selecting = FALSE, !.selected_area = r,
                       !.canvas = @ \cup {"confirmation"}]
        ELSE [s EXCEPT !.selecting = FALSE,
                       !.canvas = ClearSelection(@) \cup {"instructions"}]

ConfirmSelectionSel(s) == [s EXCEPT !.selection_confirmed = TRUE]

\* Mutant: Escape quits the loop and leaves the stored selection in place.
CancelKeepsSelection(s) == [s EXCEPT !.selection_confirmed = FALSE]

CancelSelectionSel(s) ==
    [s EXCEPT !.selected_area = NoRegion, !.selection_confirmed = FALSE]

\* ----------------------------------------------------------------- history
\* What is remembered of a call while it runs (history only, the program
\* reads none of it): the statistics and files it found when it was made
\* (for capture_area_selection: when it acquired the guard), the screen its
\* selection session froze, how that session ended, the last drag drawn in
\* it, the region returned, and the attempts made to save the image.
NewSession(s, fs) ==
    [snapshot |-> NoSnapshot, region |-> NoRegion, ended |-> "none",
     last_drag |-> NoRegion, stats0 |-> s, files0 |-> fs, saves |-> <<>>]

\* ------------------------------------------------------- frames and images
IdleFrame ==
    [pc |-> "idle", op |-> "none", id |-> 0, save_path |-> NoPath,
     folder_override |-> "", app_name |-> <<>>, region |-> NoRegion,
     screenshot |-> NoImage, current_app |-> NoApp, prefix |-> <<>>,
     ret |-> NoPath, outcome |-> "none", holds_guard |-> FALSE,
     delegated |-> FALSE, attempts |-> <<>>, raised |-> {},
     nkind |-> "none", ntype |-> "", npath |-> NoPath, nmsg |-> "", idx |-> 0]

\* Number of the 50x50 resampled pixels of the screen whose r+g+b exceeds 30:
\* content 0 is a black screen, every other content a bright one.
ScreenNonBlack(content) == IF content = 0 THEN 0 ELSE SamplePixels

\* pyautogui.screenshot(region=(x, y, w, h)) of the live screen, taken by
\* the capture path src.
ScreenGrab(src, content, x, y, w, h) ==
    [src |-> src, content |-> content, x |-> x, y |-> y, w |-> w, h |-> h,
     nonblack |-> ScreenNonBlack(content)]

\* pyautogui.screenshot() of the whole screen.
FullScreenGrab(src, content) == ScreenGrab(src, content, 0, 0, ScreenW, ScreenH)

\* _is_image_valid: at least 10x10, and more than 10% of the resampled
\* pixels not black.
IsImageValid(image) ==
    /\ image # NoImage
    /\ image.w >= MinImageSide
    /\ image.h >= MinImageSide
    /\ image.nonblack * 10 > SamplePixels

\* ------------------------------------------------------------- statistics
\* Mutant: a failure is counted in failed_captures only.
UpdateStatsTotalOnSuccess(s, success) ==
    [s EXCEPT !.total_captures = IF success THEN @ + 1 ELSE @,
              !.successful_captures = IF success THEN @ + 1 ELSE @,
              !.failed_captures = IF success THEN @ ELSE @ + 1]

UpdateStats(s, success) ==
    [s EXCEPT !.total_captures = @ + 1,
              !.successful_captures = IF success THEN @ + 1 ELSE @,
              !.failed_captures = IF success THEN @ ELSE @ + 1]

\* __exit__ of _memory_optimized_capture: the sample m of the memory in use.
MemoryOptimizedExit(s, m) == [s EXCEPT !.memory_usage_mb = m]

\* ------------------------------------------------------------ file names
ScreenshotName == <<"S", "c", "r", "e", "e", "n", "s", "h", "o", "t">>

\* image_format.lower(), with jpeg shortened to jpg.
Extension(fmt) == IF fmt = "JPEG" THEN "jpg" ELSE "png"

\* The while loop of _generate_filename: each round appends _counter to the
\* stem of the candidate of the round before.
RECURSIVE AvoidConflict(_, _, _)
AvoidConflict(existing, full_path, counter) ==
    IF full_path \in existing
    THEN AvoidConflict(existing,
                       [full_path EXCEPT !.suffix = Append(@, counter)],
                       counter + 1)
    ELSE full_path

\* The candidates that loop forms, in order, the last being the one returned.
RECURSIVE ConflictCandidates(_, _, _)
ConflictCandidates(existing, full_path, counter) ==
    IF full_path \in existing
    THEN <<[full_path EXCEPT !.suffix = Append(@, counter)]>>
            \o ConflictCandidates(existing,
                   [full_path EXCEPT !.suffix = Append(@, counter)],
                   counter + 1)
    ELSE <<>>

GenerateFilename(existing, folder_override, prefix, time, fmt) ==
    AvoidConflict(existing,
                  [folder |-> IF folder_override # "" THEN folder_override
                              ELSE "default",
                   prefix |-> IF prefix # <<>> /\ prefix # ScreenshotName
                              THEN prefix ELSE <<>>,
                   stamp |-> time \div TicksPerSecond,
                   suffix |-> <<>>,
                   ext |-> Extension(fmt)],
                  1)

\* A caller's path without extension, in a directory whose name has a dot:
\* john.doe/shots/s
DottedDirPath ==
    [folder |-> "john.doe/shots", prefix |-> <<"s">>, stamp |-> 0,
     suffix |-> <<>>, ext |-> ""]

\* save_path.rsplit('.', 1)[0] + '.png': the text before the last dot of the
\* whole path, then .png. The last dot is the one of the extension when the
\* file name has one; in john.doe/shots/s it is the one of the directory,
\* and the result is john.png.
PngFallbackPath(save_path) ==
    IF save_path.ext = "" /\ save_path.folder = DottedDirPath.folder
    THEN [folder |-> "", prefix |-> <<"j", "o", "h", "n">>, stamp |-> 0,
          suffix |-> <<>>, ext |-> "png"]
    ELSE [save_path EXCEPT !.ext = "png"]

\* The image.save calls of _process_and_save_image: in the configured
\* format and, if that raised, once more as PNG at the fallback path.
SaveAttempts(save_path, fmt, ok, png_ok) ==
    IF ok THEN <<[path |-> save_path, format |-> fmt, ok |-> TRUE]>>
    ELSE <<[path |-> save_path, format |-> fmt, ok |-> FALSE],
           [path |-> PngFallbackPath(save_path), format |-> "PNG",
            ok |-> png_ok]>>

WriteFile(fs, path, image) ==
    [p \in DOMAIN fs \cup {path} |-> IF p = path THEN image ELSE fs[p]]

\* ------------------------------------------------------------ AppDetector
\* The windows the OS can report as foreground, as AppInfo records.
Editor ==
    [name |-> <<"a">>, pid |-> 1, window_title |-> <<"t", ":", " ", " ", "x">>,
     window_rect |-> <<0 - 4, 8, 60, 52>>]
Player ==
    [name |-> <<"b">>, pid |-> 2, window_title |-> <<>>,
     window_rect |-> <<0, 0, 0, 0>>]
ForegroundApps == {Editor, Player}

\* What GetWindowRect answers for the main window of a process, as
\* (x, y, width, height), and whether its style has WS_BORDER.
OuterRect(pid) == IF pid = 1 THEN <<0 - 8, 0, 72, 96>> ELSE <<0, 0, 40, 40>>

CacheTicks == CacheDuration * TicksPerSecond

\* _update_history: no consecutive duplicates, 25 kept once 50 is exceeded.
\* Mutant: the history is never cut back.
UpdateHistoryUntrimmed(history, app_info) ==
    IF history = <<>> \/ history[Len(history)].name # app_info.name
    THEN Append(history, app_info)
    ELSE history

\* Mutant: a detection with the name of the last entry replaces that entry.
UpdateHistoryKeepsLatest(history, app_info) ==
    IF history = <<>> \/ history[Len(history)].name # app_info.name
    THEN LET h == Append(history, app_info)
         IN  IF Len(h) > MaxHistory
             THEN SubSeq(h, Len(h) - KeptHistory + 1, Len(h))
             ELSE h
    ELSE [history EXCEPT ![Len(history)] = app_info]

UpdateHistory(history, app_info) ==
    IF history = <<>> \/ history[Len(history)].name # app_info.name
    THEN LET h == Append(history, app_info)
         IN  IF Len(h) > MaxHistory
             THEN SubSeq(h, Len(h) - KeptHistory + 1, Len(h))
             ELSE h
    ELSE history

\* The platform query of get_current_app at time `time` with window fg in
\* front, and what follows it; ok: the query did not raise. Gives the result
\* and the detector fields afterwards.
DetectForeground(time, fg, ok) ==
    IF ~ok \/ fg = NoApp
    THEN [app |-> NoApp, cached_app |-> cached_app,
          last_detection_time |-> last_detection_time,
          app_history |-> app_history, queried |-> TRUE]
    ELSE [app |-> fg, cached_app |-> fg, last_detection_time |-> time,
          app_history |-> UpdateHistory(app_history, fg), queried |-> TRUE]

\* Mutant: the cache is never consulted.
GetCurrentAppAlwaysQueries(time, fg, ok) == DetectForeground(time, fg, ok)

\* get_current_app(use_cache=True).
GetCurrentApp(time, fg, ok) ==
    IF cached_app # NoApp /\ time - last_detection_time < CacheTicks
    THEN [app |-> cached_app, cached_app |-> cached_app,
          last_detection_time |-> last_detection_time,
          app_history |-> app_history, queried |-> FALSE]
    ELSE DetectForeground(time, fg, ok)

\* settings.get_app_folder: the folder linked to an application name.
GetAppFolder(name) == IF name = <<"a">> THEN "apps" ELSE ""

\* str.lower on the letters used here.
LowerChar(c) == IF c = "A" THEN "a" ELSE IF c = "B" THEN "b" ELSE c
Lower(str) == [i \in 1..Len(str) |-> LowerChar(str[i])]

\* ------------------------------------------------------ _sanitize_filename
InvalidChars == {"<", ">", ":", "\"", "/", "\\", "|", "?", "*"}
Whitespace == {" ", "\t", "\n"}
\* Characters outside ASCII: a letter, a pictograph of the emoji ranges, and
\* a format character (category Cf).
NonAscii == {"e_acute", "emoji", "zero_width_space"}
NonAsciiControl == {"zero_width_space"}
EmojiRanges == {"emoji"}

NotControl(c) == c \notin NonAsciiControl
NotEmoji(c) == c \notin EmojiRanges
IsAscii(c) == c \notin NonAscii

\* re.sub(r'\s+', ' ', filename)
RECURSIVE CollapseSpaces(_)
CollapseSpaces(str) ==
    IF str = <<>> THEN <<>>
    ELSE IF Head(str) \in Whitespace
    THEN IF Len(str) > 1 /\ str[2] \in Whitespace
         THEN CollapseSpaces(Tail(str))
         ELSE <<" ">> \o CollapseSpaces(Tail(str))
    ELSE <<Head(str)>> \o CollapseSpaces(Tail(str))

\* str.strip
RECURSIVE Strip(_)
Strip(str) ==
    IF str = <<>> THEN <<>>
    ELSE IF Head(str) \in Whitespace THEN Strip(Tail(str))
    ELSE IF str[Len(str)] \in Whitespace THEN Strip(SubSeq(str, 1, Len(str) - 1))
    ELSE str

\* Mutant: the forbidden characters are not replaced.
SanitizeKeepsInvalid(filename) ==
    LET kept == SelectSeq(SelectSeq(SelectSeq(filename, NotControl), NotEmoji),
                          IsAscii)
        stripped == Strip(CollapseSpaces(kept))
        named == IF stripped = <<>> THEN ScreenshotName ELSE stripped
    IN  IF Len(named) > MaxFilename THEN SubSeq(named, 1, MaxFilename)
        ELSE named

SanitizeFilename(filename) ==
    LET kept == SelectSeq(SelectSeq(SelectSeq(filename, NotControl), NotEmoji),
                          IsAscii)
        replaced == [i \in 1..Len(kept) |->
                        IF kept[i] \in InvalidChars THEN "_" ELSE kept[i]]
        stripped == Strip(CollapseSpaces(replaced))
        named == IF stripped = <<>> THEN ScreenshotName ELSE stripped
    IN  IF Len(named) > MaxFilename THEN SubSeq(named, 1, MaxFilename)
        ELSE named

\* ---------------------------------------------------------- notifications
CallbackList(kind) ==
    IF kind = "complete" THEN capture_callbacks ELSE error_callbacks

\* Mutant: the loop over the callbacks starts at the second one.
BeginNotifyFromSecond(f, kind, ctype, path, msg) ==
    [f EXCEPT !.pc = "notify", !.nkind = kind, !.ntype = ctype,
              !.npath = path, !.nmsg = msg, !.idx = 2,
              !.screenshot = NoImage, !.region = NoRegion, !.prefix = <<>>,
              !.attempts = <<>>, !.raised = {}]

\* Entry of _notify_capture_complete / _notify_error in frame f.
BeginNotify(f, kind, ctype, path, msg) ==
    [f EXCEPT !.pc = "notify", !.nkind = kind, !.ntype = ctype,
              !.npath = path, !.nmsg = msg, !.idx = 1,
              !.screenshot = NoImage, !.region = NoRegion, !.prefix = <<>>,
              !.attempts = <<>>, !.raised = {}]

\* The frame once the method has returned: its locals are gone, its return
\* value and the way it ended remain.
Returned(f) ==
    [IdleFrame EXCEPT !.pc = "done", !.op = f.op, !.id = f.id, !.ret = f.ret,
                      !.outcome = f.outcome]

\* The capture type a frame reports: capture_app_direct reports "direct" from
\* its own handler and "window" once it runs capture_active_window.
CaptureType(f) ==
    CASE f.op = "fullscreen" -> "fullscreen"
      [] f.op = "area" -> "area"
      [] f.op = "window" -> "window"
      [] OTHER -> IF f.delegated THEN "window" ELSE "direct"

\* The except block of a capture_* method.
ExceptFrame(f, msg) ==
    BeginNotify([f EXCEPT !.outcome = "failure", !.ret = NoPath],
                "error", CaptureType(f), NoPath, msg)

\* Mutant: _prepare_capture is called before the try block is entered.
InTryAfterPrepare(f) ==
    f.pc \in {"select", "mainloop", "grab", "save", "detect", "check",
              "m1", "m2", "m3", "m4"}

\* The places of a capture_* method that lie inside its try block: all but
\* the guard at the top of capture_area_selection, the notification the
\* handlers end with, and the finally block.
InTry(f) ==
    f.pc \in {"prepare", "select", "mainloop", "grab", "save", "detect",
              "check", "m1", "m2", "m3", "m4"}

\* An exception raised where frame f stands: handled by the except block, or
\* on its way to the caller.
Raise(f, msg) ==
    IF InTry(f) THEN ExceptFrame(f, msg)
    ELSE [f EXCEPT !.pc = "propagated", !.outcome = "exception"]

\* The statistics after that exception: the handler counts a failure.
RaiseStats(f, s) == IF InTry(f) THEN UpdateStats(s, FALSE) ELSE s

\* One round of the for loop: bind `callback`, start the notifier thread.
NotifyStep(t) ==
    LET f == call[t]
        list == CallbackList(f.nkind)
    IN  /\ f.pc = "notify"
        /\ f.idx <= Len(list)
        /\ f.idx > 1 \/ app_active
        /\ callback_cell' = [callback_cell EXCEPT ![f.id] = list[f.idx]]
        /\ notifiers' = notifiers \cup
              {[call |-> f.id, n |-> f.idx, kind |-> f.nkind, ctype |-> f.ntype,
                path |-> f.npath, msg |-> f.nmsg]}
        /\ call' = [call EXCEPT ![t].idx = @ + 1]
        /\ UNCHANGED <<serviceVars, envVars, files, detectorVars, guardVars, callbackVars,
                       stats, selector, fired, session, ncalls>>

\* Mutant: the method returns from its handler without its finally block.
NotifyReturnSkipFinally(t) ==
    LET f == call[t]
        list == CallbackList(f.nkind)
    IN  /\ f.pc = "notify"
        /\ f.idx > Len(list) \/ (f.idx = 1 /\ ~app_active)
        /\ call' = [call EXCEPT ![t] = Returned(f)]
        /\ area_selection_lock' =
              IF f.outcome = "rejected" THEN 0 ELSE area_selection_lock
        /\ session' = [session EXCEPT ![f.id] = NewSession(0, 0)]
        /\ UNCHANGED <<serviceVars, envVars, files, detectorVars, area_selection_active,
                       callbackVars, stats, selector, notifyVars, ncalls>>

\* _notify_* returns, and with it the capture_* method unless a finally
\* block is still to run; a rejected call leaves the with block of the lock.
NotifyReturn(t) ==
    LET f == call[t]
        list == CallbackList(f.nkind)
    IN  /\ f.pc = "notify"
        /\ f.idx > Len(list) \/ (f.idx = 1 /\ ~app_active)
        /\ call' = [call EXCEPT ![t] =
                        IF f.holds_guard THEN [f EXCEPT !.pc = "finally"]
                        ELSE Returned(f)]
        /\ area_selection_lock' =
              IF f.outcome = "rejected" THEN 0 ELSE area_selection_lock
        /\ session' = IF f.holds_guard THEN session
                       ELSE [session EXCEPT ![f.id] = NewSession(0, 0)]
        /\ UNCHANGED <<serviceVars, envVars, files, detectorVars, area_selection_active,
                       callbackVars, stats, selector, notifyVars, ncalls>>

\* A notifier thread runs safe_callback / safe_error_callback.
RunNotifier(n) ==
    /\ n \in notifiers
    /\ notifiers' = notifiers \ {n}
    /\ fired' = IF app_active
                THEN fired \cup {[cb |-> callback_cell[n.call], n |-> n.n,
                                  call |-> n.call, kind |-> n.kind,
                                  ctype |-> n.ctype, path |-> n.path,
                                  msg |-> n.msg]}
                ELSE fired
    /\ UNCHANGED <<serviceVars, envVars, files, detectorVars, guardVars, callbackVars,
                   stats, call, selector, callback_cell, session, ncalls>>

\* SnapMasterGUI._setup_callbacks: the GUI registers its completion and its
\* error handler before it starts the services that trigger captures.
SetupCallbacks ==
    /\ app_active
    /\ capture_callbacks = <<>>
    /\ error_callbacks = <<>>
    /\ capture_callbacks' = <<1>>
    /\ error_callbacks' = <<1>>
    /\ UNCHANGED <<serviceVars, envVars, files, detectorVars, guardVars, app_active, stats,
                   call, selector, notifyVars, session, ncalls>>

\* __del__: the manager is unreachable, so no call is running and no notifier
\* thread (whose closure refers to the manager) is left.
Del ==
    /\ app_active
    /\ \A t \in Threads : call[t].pc \in {"idle", "done"}
    /\ notifiers = {}
    /\ app_active' = FALSE
    /\ UNCHANGED <<serviceVars, envVars, files, detectorVars, guardVars, capture_callbacks,
                   error_callbacks, stats, call, selector, notifyVars, session,
                   ncalls>>

\* ------------------------------------------------------ capture_* : entry
Call(t, o, sp, fo, name) ==
    /\ app_active
    /\ capture_callbacks # <<>>
    /\ call[t].pc \in {"idle", "done"}
    /\ ncalls < MaxCalls
    /\ ncalls' = ncalls + 1
    /\ call' = [call EXCEPT ![t] =
                  [IdleFrame EXCEPT !.pc = IF o = "area" THEN "enter" ELSE "prepare",
                                    !.op = o, !.id = ncalls + 1,
                                    !.save_path = sp, !.folder_override = fo,
                                    !.app_name = name]]
    /\ session' = [session EXCEPT ![ncalls + 1] = NewSession(stats, files)]
    /\ UNCHANGED <<serviceVars, envVars, files, detectorVars, guardVars, callbackVars,
                   stats, selector, notifyVars>>

\* _prepare_capture, at the top of the try block of every capture_* method.
PrepareCapture(t) ==
    LET f == call[t]
    IN  /\ f.pc = "prepare"
        /\ \E ok \in BOOLEAN :
              IF ok
              THEN /\ call' = [call EXCEPT ![t].pc =
                         CASE f.op = "fullscreen" -> "grab"
                           [] f.op = "area" -> "select"
                           [] f.op = "window" -> "detect"
                           [] OTHER -> IF f.delegated THEN "detect" ELSE "check"]
                   /\ UNCHANGED stats
              ELSE /\ call' = [call EXCEPT ![t] = Raise(f, "prepare")]
                   /\ stats' = RaiseStats(f, stats)
        /\ UNCHANGED <<serviceVars, envVars, files, detectorVars, guardVars, callbackVars,
                       selector, notifyVars, session, ncalls>>

\* ------------------------------------------------- capture_area_selection
\* Mutant: the flag is set without being tested.
AreaEnterUnguarded(t) ==
    /\ call[t].pc = "enter"
    /\ area_selection_lock = 0
    /\ area_selection_active' = TRUE
    /\ call' = [call EXCEPT ![t].pc = "prepare", ![t].holds_guard = TRUE]
    /\ session' = [session EXCEPT ![call[t].id] = NewSession(stats, files)]
    /\ UNCHANGED <<serviceVars, envVars, files, detectorVars, area_selection_lock,
                   callbackVars, stats, selector, notifyVars, ncalls>>

\* The with block at the top: test and set of the flag under the lock.
AreaEnter(t) ==
    LET f == call[t]
    IN  /\ f.pc = "enter"
        /\ area_selection_lock = 0
        /\ IF area_selection_active
           THEN /\ area_selection_lock' = t
                /\ call' = [call EXCEPT ![t] =
                      BeginNotify([f EXCEPT !.outcome = "rejected"],
                                  "error", "area", NoPath, AlreadyActiveMsg)]
                /\ UNCHANGED <<area_selection_active, session>>
           ELSE /\ area_selection_active' = TRUE
                /\ call' = [call EXCEPT ![t].pc = "prepare",
                                        ![t].holds_guard = TRUE]
                /\ session' = [session EXCEPT ![f.id] = NewSession(stats, files)]
                /\ UNCHANGED area_selection_lock
        /\ UNCHANGED <<serviceVars, envVars, files, detectorVars, callbackVars, stats,
                       selector, notifyVars, ncalls>>

\* `return None` of capture_area_selection when select_area gave no region.
NoSelectionFrame(f) ==
    [f EXCEPT !.pc = "finally", !.region = NoRegion, !.ret = NoPath,
              !.outcome = "no_selection"]

\* capture_area_selection once select_area has returned region.
AfterSelectArea(f, region) ==
    IF region = NoRegion THEN NoSelectionFrame(f)
    ELSE [f EXCEPT !.pc = "grab", !.region = region]

\* AreaSelector() and select_area up to the event loop: _prepare_images
\* freezes the screen, _create_selection_interface builds the overlay.
\* _prepare_images may fail before the screen is captured or after it
\* (shot_made), _create_selection_interface before or after tk.Tk()
\* (root_made); select_area returns None on both without cleaning up.
SelectAreaStart(t) ==
    LET f == call[t]
    IN  /\ f.pc = "select"
        /\ \E frozen_ok, shot_made, ui_ok, root_made \in BOOLEAN :
              CASE ~frozen_ok ->
                     /\ selector' = [selector EXCEPT ![t] =
                           [FreshSelector EXCEPT !.frozen_screenshot =
                              IF shot_made THEN screen ELSE NoSnapshot]]
                     /\ call' = [call EXCEPT ![t] =
                           AfterSelectArea(f, FreshSelector.selected_area)]
                     /\ session' = [session EXCEPT
                           ![f.id].ended = "freeze_failed"]
                [] frozen_ok /\ ~ui_ok ->
                     /\ selector' = [selector EXCEPT ![t] =
                           [PrepareImages(FreshSelector, screen)
                              EXCEPT !.root = root_made]]
                     /\ call' = [call EXCEPT ![t] =
                           AfterSelectArea(f, FreshSelector.selected_area)]
                     /\ session' = [session EXCEPT
                           ![f.id].snapshot = screen,
                           ![f.id].ended = "interface_failed"]
                [] OTHER ->
                     /\ selector' = [selector EXCEPT ![t] =
                           CreateSelectionInterface(
                              PrepareImages(FreshSelector, screen))]
                     /\ call' = [call EXCEPT ![t].pc = "mainloop"]
                     /\ session' = [session EXCEPT ![f.id].snapshot = screen]
        /\ UNCHANGED <<serviceVars, envVars, files, detectorVars, guardVars, callbackVars,
                       stats, notifyVars, ncalls>>

InMainloop(t) == call[t].pc = "mainloop"

OnClick(t, x, y) ==
    /\ InMainloop(t)
    /\ ~selector[t].selecting
    /\ selector' = [selector EXCEPT ![t] = OnClickSel(@, x, y)]
    /\ session' = [session EXCEPT ![call[t].id].last_drag = NoRegion]
    /\ UNCHANGED <<serviceVars, envVars, files, detectorVars, guardVars, callbackVars,
                   stats, call, notifyVars, ncalls>>

OnDrag(t, x, y) ==
    /\ InMainloop(t)
    /\ selector[t].selecting
    /\ selector' = [selector EXCEPT ![t] = OnDragSel(@, x, y)]
    /\ UNCHANGED <<serviceVars, envVars, files, detectorVars, guardVars, callbackVars,
                   stats, call, notifyVars, session, ncalls>>

OnRelease(t, x, y) ==
    /\ InMainloop(t)
    /\ selector[t].selecting
    /\ selector' = [selector EXCEPT ![t] = OnReleaseSel(@, x, y)]
    /\ session' = [session EXCEPT ![call[t].id].last_drag =
          NormalizedRect(selector[t].start_x, selector[t].start_y, x, y)]
    /\ UNCHANGED <<serviceVars, envVars, files, detectorVars, guardVars, callbackVars,
                   stats, call, notifyVars, ncalls>>

\* Enter or Space: quits the event loop when a selection is stored; then
\* select_area cleans up and returns selected_area.
ConfirmSelection(t) ==
    LET s == selector[t]
    IN  /\ InMainloop(t)
        /\ s.selected_area # NoRegion
        /\ selector' = [selector EXCEPT ![t] =
              CleanupSelectionInterface(ConfirmSelectionSel(s))]
        /\ call' = [call EXCEPT ![t] =
              AfterSelectArea(@, ConfirmSelectionSel(s).selected_area)]
        /\ session' = [session EXCEPT
              ![call[t].id].region = ConfirmSelectionSel(s).selected_area,
              ![call[t].id].ended = "confirmed"]
        /\ UNCHANGED <<serviceVars, envVars, files, detectorVars, guardVars, callbackVars,
                       stats, notifyVars, ncalls>>

\* Escape.
CancelSelection(t) ==
    /\ InMainloop(t)
    /\ selector' = [selector EXCEPT ![t] =
          CleanupSelectionInterface(CancelSelectionSel(@))]
    /\ call' = [call EXCEPT ![t] =
          AfterSelectArea(@, CancelSelectionSel(selector[t]).selected_area)]
    /\ session' = [session EXCEPT
          ![call[t].id].region = CancelSelectionSel(selector[t]).selected_area,
          ![call[t].id].ended = "escape"]
    /\ UNCHANGED <<serviceVars, envVars, files, detectorVars, guardVars, callbackVars,
                   stats, notifyVars, ncalls>>

\* An exception out of the event loop: the except block of select_area.
MainloopError(t) ==
    /\ InMainloop(t)
    /\ selector' = [selector EXCEPT ![t] = CleanupSelectionInterface(@)]
    /\ call' = [call EXCEPT ![t] = AfterSelectArea(@, NoRegion)]
    /\ session' = [session EXCEPT ![call[t].id].ended = "error"]
    /\ UNCHANGED <<serviceVars, envVars, files, detectorVars, guardVars, callbackVars,
                   stats, notifyVars, ncalls>>

\* The image capture_area_selection takes for the region (x, y, w, h).
AreaImage(f, live) ==
    ScreenGrab("area", live, f.region[1], f.region[2], f.region[3], f.region[4])

\* The path an image is to be saved under: the caller's, or a generated one.
TargetPath(f, prefix) ==
    IF f.save_path # NoPath THEN f.save_path
    ELSE GenerateFilename(DOMAIN files, f.folder_override, prefix, now,
                          image_format)

AreaPrefix == <<"a", "r", "e", "a", "_", "s", "e", "l", "e", "c", "t", "i", "o", "n">>
FullscreenPrefix == <<"f", "u", "l", "l", "s", "c", "r", "e", "e", "n">>

\* After the pauses: grab the region and resolve the path to save it under.
AreaGrab(t) ==
    LET f == call[t]
    IN  /\ f.pc = "grab"
        /\ f.op = "area"
        /\ \E ok \in BOOLEAN, m \in MemSamples :
              IF ok
              THEN /\ call' = [call EXCEPT
                         ![t].screenshot = AreaImage(f, screen),
                         ![t].save_path = TargetPath(f, AreaPrefix),
                         ![t].pc = "save"]
                   /\ UNCHANGED stats
              ELSE /\ call' = [call EXCEPT ![t] = Raise(f, "grab")]
                   /\ stats' = RaiseStats(f, MemoryOptimizedExit(stats, m))
        /\ UNCHANGED <<serviceVars, envVars, files, detectorVars, guardVars, callbackVars,
                       selector, notifyVars, session, ncalls>>

\* The finally block: clear the flag under the lock, then return.
AreaFinally(t) ==
    /\ call[t].pc = "finally"
    /\ area_selection_lock = 0
    /\ area_selection_active' = FALSE
    /\ call' = [call EXCEPT ![t] = Returned(@)]
    /\ selector' = [selector EXCEPT ![t] = FreshSelector]
    /\ session' = [session EXCEPT ![call[t].id] = NewSession(0, 0)]
    /\ UNCHANGED <<serviceVars, envVars, files, detectorVars, area_selection_lock,
                   callbackVars, stats, notifyVars, ncalls>>

\* ------------------------------------------------------ capture_fullscreen
FullscreenCapture(t) ==
    LET f == call[t]
    IN  /\ f.pc = "grab"
        /\ f.op = "fullscreen"
        /\ \E ok \in BOOLEAN, m \in MemSamples :
              IF ok
              THEN /\ call' = [call EXCEPT
                         ![t].screenshot = FullScreenGrab("fullscreen", screen),
                         ![t].save_path = TargetPath(f, FullscreenPrefix),
                         ![t].pc = "save"]
                   /\ UNCHANGED stats
              ELSE /\ call' = [call EXCEPT ![t] = Raise(f, "grab")]
                   /\ stats' = RaiseStats(f, MemoryOptimizedExit(stats, m))
        /\ UNCHANGED <<serviceVars, envVars, files, detectorVars, guardVars, callbackVars,
                       selector, notifyVars, session, ncalls>>

\* --------------------------------------------------- capture_active_window
\* What the OS lets a GDI capture of a window come to: the window is not
\* found, its rectangle is empty, no device context, the copy call reports
\* failure, an exception, or a bitmap of some size and brightness.
GdiFailures == {"no_window", "bad_size", "no_dc", "api_failed", "error"}
WindowSizes == {<<MinImageSide - 1, MinImageSide>>, <<MinImageSide, MinImageSide>>}
NonBlackCounts == {SamplePixels \div 10, SamplePixels \div 10 + 1}
GdiOutcomes ==
    [kind : GdiFailures, size : {<<0, 0>>}, nonblack : {0}]
    \cup [kind : {"image"}, size : WindowSizes, nonblack : NonBlackCounts]

GdiImage(src, o) ==
    [src |-> src, content |-> 0, x |-> 0, y |-> 0, w |-> o.size[1],
     h |-> o.size[2], nonblack |-> o.nonblack]

\* Mutant: the bitmap PrintWindow filled is returned unchecked.
PrintwindowUnchecked(o) ==
    IF o.kind = "image" THEN GdiImage("printwindow", o) ELSE NoImage

\* _capture_window_printwindow: the bitmap when PrintWindow reported success
\* and the image is valid, else None.
CaptureWindowPrintwindow(o) ==
    IF o.kind = "image" /\ IsImageValid(GdiImage("printwindow", o))
    THEN GdiImage("printwindow", o)
    ELSE NoImage

\* _capture_window_bitblt_enhanced.
CaptureWindowBitbltEnhanced(o) ==
    IF o.kind = "image" /\ IsImageValid(GdiImage("bitblt", o))
    THEN GdiImage("bitblt", o)
    ELSE NoImage

\* _validate_window_coordinates while pyautogui.size() is screen_width by
\* screen_height.
ValidCoordinates(x, y, width, height, screen_width, screen_height) ==
    /\ ~(x < 0 - OffscreenTolerance \/ y < 0 - OffscreenTolerance
         \/ width <= 0 \/ height <= 0)
    /\ ~(width < MinWindowSide \/ height < MinWindowSide)
    /\ ~(width > screen_width * 2 \/ height > screen_height * 2)

ValidateWindowCoordinates(x, y, width, height) ==
    ValidCoordinates(x, y, width, height, ScreenW, ScreenH)

\* The rectangle _capture_window_region_corrected starts from.
WindowCoordinates(app_info, win, found, border) ==
    IF win /\ found
    THEN LET r == OuterRect(app_info.pid)
         IN  IF border
             THEN <<r[1] + BorderWidth, r[2] + TitleHeight,
                    r[3] - BorderWidth * 2, r[4] - (TitleHeight + BorderWidth)>>
             ELSE r
    ELSE app_info.window_rect

\* ... and the region it grabs: moved and cut to fit the screen.
\* Mutant: the rectangle is moved but not cut.
ClampRegionMoved(r, screen_width, screen_height) ==
    <<Max(0, Min(r[1], screen_width - r[3])),
      Max(0, Min(r[2], screen_height - r[4])), r[3], r[4]>>

ClampRegion(r, screen_width, screen_height) ==
    LET x == Max(0, Min(r[1], screen_width - r[3]))
        y == Max(0, Min(r[2], screen_height - r[4]))
    IN  <<x, y, Min(r[3], screen_width - x), Min(r[4], screen_height - y)>>

ClampToScreen(r) == ClampRegion(r, ScreenW, ScreenH)

\* _capture_window_region_corrected on the live screen `live`.
CaptureWindowRegionCorrected(app_info, win, live, found, border, raised) ==
    LET r == WindowCoordinates(app_info, win, found, border)
        c == ClampToScreen(r)
        image == ScreenGrab("region", live, c[1], c[2], c[3], c[4])
    IN  IF raised \/ ~ValidateWindowCoordinates(r[1], r[2], r[3], r[4])
        THEN NoImage
        ELSE IF IsImageValid(image) THEN image ELSE NoImage

\* get_current_app and the choice of the folder.
Detect(t) ==
    LET f == call[t]
    IN  /\ f.pc = "detect"
        /\ \E ok \in BOOLEAN :
              LET d == GetCurrentApp(now, foreground, ok)
              IN  /\ cached_app' = d.cached_app
                  /\ last_detection_time' = d.last_detection_time
                  /\ app_history' = d.app_history
                  /\ IF d.app = NoApp
                     THEN /\ call' = [call EXCEPT ![t] = Raise(f, NoActiveAppMsg)]
                          /\ stats' = RaiseStats(f, stats)
                     ELSE /\ call' = [call EXCEPT
                                ![t].current_app = d.app,
                                ![t].folder_override =
                                    IF @ = "" THEN GetAppFolder(d.app.name) ELSE @,
                                ![t].pc = "m1"]
                          /\ UNCHANGED stats
        /\ UNCHANGED <<serviceVars, envVars, files, guardVars, callbackVars, selector,
                       notifyVars, session, ncalls>>

\* Method 1: PrintWindow, on Windows.
Method1(t) ==
    LET f == call[t]
    IN  /\ f.pc = "m1"
        /\ IF windows_available
           THEN \E o \in GdiOutcomes :
                   call' = [call EXCEPT
                      ![t].screenshot = CaptureWindowPrintwindow(o),
                      ![t].attempts = Append(@, "printwindow"),
                      ![t].raised = IF o.kind = "error"
                                    THEN @ \cup {"printwindow"} ELSE @,
                      ![t].pc = "m2"]
           ELSE call' = [call EXCEPT ![t].pc = "m2"]
        /\ UNCHANGED <<serviceVars, envVars, files, detectorVars, guardVars, callbackVars,
                       stats, selector, notifyVars, session, ncalls>>

\* Mutant: method 2 runs whatever method 1 gave.
Method2Unguarded(t) ==
    LET f == call[t]
    IN  /\ f.pc = "m2"
        /\ IF windows_available
           THEN \E o \in GdiOutcomes :
                   call' = [call EXCEPT
                      ![t].screenshot = CaptureWindowBitbltEnhanced(o),
                      ![t].attempts = Append(@, "bitblt"),
                      ![t].raised = IF o.kind = "error"
                                    THEN @ \cup {"bitblt"} ELSE @,
                      ![t].pc = "m3"]
           ELSE call' = [call EXCEPT ![t].pc = "m3"]
        /\ UNCHANGED <<serviceVars, envVars, files, detectorVars, guardVars, callbackVars,
                       stats, selector, notifyVars, session, ncalls>>

\* Method 2: BitBlt, when method 1 gave nothing.
Method2(t) ==
    LET f == call[t]
    IN  /\ f.pc = "m2"
        /\ IF f.screenshot = NoImage /\ windows_available
           THEN \E o \in GdiOutcomes :
                   call' = [call EXCEPT
                      ![t].screenshot = CaptureWindowBitbltEnhanced(o),
                      ![t].attempts = Append(@, "bitblt"),
                      ![t].raised = IF o.kind = "error"
                                    THEN @ \cup {"bitblt"} ELSE @,
                      ![t].pc = "m3"]
           ELSE call' = [call EXCEPT ![t].pc = "m3"]
        /\ UNCHANGED <<serviceVars, envVars, files, detectorVars, guardVars, callbackVars,
                       stats, selector, notifyVars, session, ncalls>>

\* Mutant: an exception inside the region grab leaves the method.
Method3Propagates(t) ==
    LET f == call[t]
    IN  /\ f.pc = "m3"
        /\ \E found, border, raised \in BOOLEAN :
              IF f.screenshot = NoImage /\ raised
              THEN /\ call' = [call EXCEPT ![t] = Raise(f, "region")]
                   /\ stats' = RaiseStats(f, stats)
              ELSE /\ call' = [call EXCEPT
                         ![t].screenshot =
                             IF f.screenshot = NoImage
                             THEN CaptureWindowRegionCorrected(f.current_app,
                                      windows_available, screen, found, border,
                                      FALSE)
                             ELSE @,
                         ![t].attempts = IF f.screenshot = NoImage
                                         THEN Append(@, "region") ELSE @,
                         ![t].pc = "m4"]
                   /\ UNCHANGED stats
        /\ UNCHANGED <<serviceVars, envVars, files, detectorVars, guardVars, callbackVars,
                       selector, notifyVars, session, ncalls>>

\* Method 3: grab of the corrected region, when methods 1 and 2 gave nothing.
Method3(t) ==
    LET f == call[t]
    IN  /\ f.pc = "m3"
        /\ IF f.screenshot = NoImage
           THEN \E found, border, raised \in BOOLEAN :
                   call' = [call EXCEPT
                      ![t].screenshot =
                          CaptureWindowRegionCorrected(f.current_app,
                              windows_available, screen, found, border, raised),
                      ![t].attempts = Append(@, "region"),
                      ![t].raised = IF raised THEN @ \cup {"region"} ELSE @,
                      ![t].pc = "m4"]
           ELSE call' = [call EXCEPT ![t].pc = "m4"]
        /\ UNCHANGED <<serviceVars, envVars, files, detectorVars, guardVars, callbackVars,
                       stats, selector, notifyVars, session, ncalls>>

\* Mutant: no image is taken when the three strategies gave none.
NoFallback(f, live) == f.screenshot

\* Method 4: the image after the fallback, the whole screen `live` as it is
\* when the three strategies gave nothing.
WithFallback(f, live) ==
    IF f.screenshot = NoImage THEN FullScreenGrab("fallback", live)
    ELSE f.screenshot

WindowPrefix(app_info) ==
    SanitizeFilename(app_info.name \o <<"_">> \o app_info.window_title)

\* Method 4, then the prefix and the path to save under; ok: the grab of the
\* whole screen, if one was needed, did not raise.
Method4(t) ==
    LET f == call[t]
    IN  /\ f.pc = "m4"
        /\ \E ok \in BOOLEAN, m \in MemSamples :
              IF ok \/ f.screenshot # NoImage
              THEN /\ call' = [call EXCEPT
                         ![t].screenshot = WithFallback(f, screen),
                         ![t].attempts = IF f.screenshot = NoImage
                                         THEN Append(@, "fallback") ELSE @,
                         ![t].prefix = WindowPrefix(f.current_app),
                         ![t].save_path = TargetPath(f, WindowPrefix(f.current_app)),
                         ![t].pc = "save"]
                   /\ UNCHANGED stats
              ELSE /\ call' = [call EXCEPT ![t] = Raise(f, "grab")]
                   /\ stats' = RaiseStats(f, MemoryOptimizedExit(stats, m))
        /\ UNCHANGED <<serviceVars, envVars, files, detectorVars, guardVars, callbackVars,
                       selector, notifyVars, session, ncalls>>

\* ------------------------------------------------------ capture_app_direct
\* The foreground test, then the call of capture_active_window in the same
\* thread with the folder linked to the requested name.
DirectCheck(t) ==
    LET f == call[t]
    IN  /\ f.pc = "check"
        /\ \E ok \in BOOLEAN :
              LET d == GetCurrentApp(now, foreground, ok)
              IN  /\ cached_app' = d.cached_app
                  /\ last_detection_time' = d.last_detection_time
                  /\ app_history' = d.app_history
                  /\ IF d.app = NoApp \/ Lower(d.app.name) # Lower(f.app_name)
                     THEN /\ call' = [call EXCEPT ![t] = Raise(f, AppNotActiveMsg)]
                          /\ stats' = RaiseStats(f, stats)
                     ELSE /\ call' = [call EXCEPT
                                ![t].folder_override = GetAppFolder(f.app_name),
                                ![t].delegated = TRUE,
                                ![t].pc = "prepare"]
                          /\ UNCHANGED stats
        /\ UNCHANGED <<serviceVars, envVars, files, guardVars, callbackVars, selector,
                       notifyVars, session, ncalls>>

\* ------------------------------------------------ _process_and_save_image
\* image.save in the configured format, else once more as PNG; then the end
\* of the with block, _update_stats(True) and _notify_capture_complete.
SaveImage(t) ==
    LET f == call[t]
    IN  /\ f.pc = "save"
        /\ \E ok \in BOOLEAN, png_ok \in BOOLEAN, m \in MemSamples :
              LET a == SaveAttempts(f.save_path, image_format, ok, png_ok)
                  path == a[Len(a)].path
              IN  /\ session' = [session EXCEPT ![f.id].saves = a]
                  /\ IF a[Len(a)].ok
                     THEN /\ files' = WriteFile(files, path, f.screenshot)
                          /\ stats' = UpdateStats(MemoryOptimizedExit(stats, m),
                                                  TRUE)
                          /\ call' = [call EXCEPT ![t] =
                                BeginNotify([f EXCEPT !.outcome = "success",
                                                      !.ret = path,
                                                      !.save_path = path],
                                            "complete", CaptureType(f), path, "")]
                     ELSE /\ UNCHANGED files
                          /\ stats' = RaiseStats(f, MemoryOptimizedExit(stats, m))
                          /\ call' = [call EXCEPT ![t] = Raise(f, "save")]
        /\ UNCHANGED <<serviceVars, envVars, detectorVars, guardVars, callbackVars,
                       selector, notifyVars, ncalls>>

\* ------------------------------------------------------------ environment
ScreenChange ==
    /\ \E c \in ScreenContents \ {screen} : screen' = c
    /\ UNCHANGED <<serviceVars, now, files, image_format, windows_available, foreground,
                   detectorVars, guardVars, callbackVars, stats, call,
                   selector, notifyVars, session, ncalls>>

ForegroundChange ==
    /\ \E w \in (ForegroundApps \cup {NoApp}) \ {foreground} : foreground' = w
    /\ UNCHANGED <<serviceVars, screen, now, files, image_format, windows_available,
                   detectorVars, guardVars, callbackVars, stats, call,
                   selector, notifyVars, session, ncalls>>

Tick ==
    /\ now < MaxTime
    /\ now' = now + 1
    /\ UNCHANGED <<serviceVars, screen, files, image_format, windows_available, foreground,
                   detectorVars, guardVars, callbackVars, stats, call,
                   selector, notifyVars, session, ncalls>>

\* ---------------------------------------------------------- specifications
ExplicitPath ==
    [folder |-> "explicit", prefix |-> <<"s">>, stamp |-> 0, suffix |-> <<>>,
     ext |-> "jpg"]

Init ==
    /\ screen \in ScreenContents
    /\ now = 0
    /\ files = <<>>
    /\ image_format \in Formats
    /\ windows_available \in BOOLEAN
    /\ foreground \in ForegroundApps \cup {NoApp}
    /\ cached_app = NoApp
    /\ last_detection_time = 0
    /\ app_history = <<>>
    /\ area_selection_active = FALSE
    /\ area_selection_lock = 0
    /\ app_active = TRUE
    /\ capture_callbacks = <<>>
    /\ error_callbacks = <<>>
    /\ stats = [total_captures |-> 0, successful_captures |-> 0,
                failed_captures |-> 0, memory_usage_mb |-> 0]
    /\ call = [t \in Threads |-> IdleFrame]
    /\ selector = [t \in Threads |-> FreshSelector]
    /\ callback_cell = [c \in CallIds |-> 0]
    /\ notifiers = {}
    /\ fired = {}
    /\ session = [c \in CallIds |-> NewSession(0, 0)]
    /\ ncalls = 0
    /\ probe = NoProbe
    /\ monitor = NoMonitor
    /\ hotkeys = NoHotkeys
    /\ detections = <<>>
    /\ updating = [t \in Threads |-> IdleUpdate]
    /\ memory = NoMemory
    /\ settings = NoSettings

\* The four capture operations, each from every thread, on Windows with a
\* bright screen and any window, or none, in front. A caller passes a path
\* or none; a drag between the two points commits, one that ends where it
\* began does not.
DragPoints == {<<2, 2>>, <<20, 30>>}
RequestedNames == {<<"A">>, <<"b">>}
SavePaths == {NoPath, ExplicitPath}

InitCapture ==
    /\ Init
    /\ image_format = "JPEG"
    /\ windows_available
    /\ screen = MaxScreen
    /\ foreground \in {Editor, NoApp}

Next ==
    \/ \E t \in Threads, o \in {"fullscreen", "area"} :
          Call(t, o, NoPath, "", <<>>)
    \/ \E t \in Threads, sp \in SavePaths :
          Call(t, "window", sp, "", <<>>)
    \/ \E t \in Threads, name \in RequestedNames :
          Call(t, "direct", NoPath, "", name)
    \/ \E t \in Threads : PrepareCapture(t)
    \/ \E t \in Threads : FullscreenCapture(t)
    \/ \E t \in Threads : Detect(t)
    \/ \E t \in Threads : Method1(t)
    \/ \E t \in Threads : Method2(t)
    \/ \E t \in Threads : Method3(t)
    \/ \E t \in Threads : Method4(t)
    \/ \E t \in Threads : DirectCheck(t)
    \/ \E t \in Threads : AreaEnter(t)
    \/ \E t \in Threads : SelectAreaStart(t)
    \/ \E t \in Threads, p \in DragPoints : OnClick(t, p[1], p[2])
    \/ \E t \in Threads, p \in DragPoints : OnRelease(t, p[1], p[2])
    \/ \E t \in Threads : ConfirmSelection(t)
    \/ \E t \in Threads : CancelSelection(t)
    \/ \E t \in Threads : MainloopError(t)
    \/ \E t \in Threads : AreaGrab(t)
    \/ \E t \in Threads : SaveImage(t)
    \/ \E t \in Threads : AreaFinally(t)
    \/ \E t \in Threads : NotifyStep(t)
    \/ \E t \in Threads : NotifyReturn(t)
    \/ \E n \in notifiers : RunNotifier(n)
    \/ SetupCallbacks
    \/ Del

Spec == InitCapture /\ [][Next]_vars

\* One call of capture_active_window or capture_app_direct, on either
\* platform and in either image format, while windows come and go, the
\* screen changes and time passes.
NextWindow ==
    \/ \E i \in {<<NoPath, "">>, <<NoPath, "custom">>, <<ExplicitPath, "">>} :
          ncalls = 0 /\ Call(1, "window", i[1], i[2], <<>>)
    \/ \E sp \in SavePaths, name \in RequestedNames :
          ncalls = 0 /\ Call(1, "direct", sp, "", name)
    \/ PrepareCapture(1)
    \/ Detect(1)
    \/ Method1(1)
    \/ Method2(1)
    \/ Method3(1)
    \/ Method4(1)
    \/ DirectCheck(1)
    \/ SaveImage(1)
    \/ NotifyStep(1)
    \/ NotifyReturn(1)
    \/ \E n \in notifiers : RunNotifier(n)
    \/ SetupCallbacks
    \/ ForegroundChange
    \/ ScreenChange
    \/ Tick

SpecWindow == Init /\ [][NextWindow]_vars

\* capture_area_selection alone, from every thread; a drag between the two
\* points commits, one that ends where it began does not.
InitArea ==
    /\ Init
    /\ image_format = "JPEG"
    /\ ~windows_available
    /\ foreground = NoApp

NextArea ==
    \/ \E t \in Threads : Call(t, "area", NoPath, "", <<>>)
    \/ \E t \in Threads : AreaEnter(t)
    \/ \E t \in Threads : PrepareCapture(t)
    \/ \E t \in Threads : SelectAreaStart(t)
    \/ \E t \in Threads, p \in DragPoints : OnClick(t, p[1], p[2])
    \/ \E t \in Threads, p \in DragPoints : OnRelease(t, p[1], p[2])
    \/ \E t \in Threads : ConfirmSelection(t)
    \/ \E t \in Threads : CancelSelection(t)
    \/ \E t \in Threads : MainloopError(t)
    \/ \E t \in Threads : AreaGrab(t)
    \/ \E t \in Threads : SaveImage(t)
    \/ \E t \in Threads : AreaFinally(t)
    \/ \E t \in Threads : NotifyStep(t)
    \/ \E t \in Threads : NotifyReturn(t)
    \/ \E n \in notifiers : RunNotifier(n)
    \/ SetupCallbacks
    \/ ScreenChange
    \/ Del

SpecArea == InitArea /\ [][NextArea]_vars

\* One selection session in one thread, with every pointer event; the
\* pointer visits points on both sides of the 10-pixel commit threshold and
\* points beyond the edges of the overlay, which a drag that leaves the
\* primary monitor delivers.
XCoords == {0 - OutOfScreen, 0, MinSelection, MinSelection + 1, ScreenW + OutOfScreen}
YCoords == {0, MinSelection + 1, ScreenH + OutOfScreen}

NextSel ==
    \/ ncalls = 0 /\ Call(1, "area", NoPath, "", <<>>)
    \/ AreaEnter(1)
    \/ PrepareCapture(1)
    \/ SelectAreaStart(1)
    \/ \E x \in XCoords, y \in YCoords : OnClick(1, x, y)
    \/ \E x \in XCoords, y \in YCoords : OnDrag(1, x, y)
    \/ \E x \in XCoords, y \in YCoords : OnRelease(1, x, y)
    \/ ConfirmSelection(1)
    \/ CancelSelection(1)
    \/ MainloopError(1)
    \/ AreaGrab(1)
    \/ SaveImage(1)
    \/ AreaFinally(1)
    \/ NotifyStep(1)
    \/ NotifyReturn(1)
    \/ \E n \in notifiers : RunNotifier(n)
    \/ SetupCallbacks
    \/ ScreenChange

SpecSel == InitArea /\ [][NextSel]_vars

\* Successive capture_fullscreen calls of one thread with generated file
\* names, in either image format, while time passes and the screen changes.
InitFiles ==
    /\ Init
    /\ ~windows_available
    /\ foreground = NoApp

NextFiles ==
    \/ Call(1, "fullscreen", NoPath, "", <<>>)
    \/ PrepareCapture(1)
    \/ FullscreenCapture(1)
    \/ SaveImage(1)
    \/ NotifyStep(1)
    \/ NotifyReturn(1)
    \/ \E n \in notifiers : RunNotifier(n)
    \/ SetupCallbacks
    \/ ScreenChange
    \/ Tick

SpecFiles == InitFiles /\ [][NextFiles]_vars

\* add_capture_callback and add_error_callback called twice each: two
\* completion callbacks and two error callbacks are registered.
SetupTwoCallbacks ==
    /\ app_active
    /\ capture_callbacks = <<>>
    /\ error_callbacks = <<>>
    /\ capture_callbacks' = <<1, 2>>
    /\ error_callbacks' = <<1, 2>>
    /\ UNCHANGED <<serviceVars, envVars, files, detectorVars, guardVars,
                   app_active, stats, call, selector, notifyVars, session,
                   ncalls>>

\* capture_fullscreen calls with two callbacks of each kind registered; the
\* notifier threads run at any time after they were started.
NextNotify ==
    \/ SetupTwoCallbacks
    \/ Call(1, "fullscreen", NoPath, "", <<>>)
    \/ PrepareCapture(1)
    \/ FullscreenCapture(1)
    \/ SaveImage(1)
    \/ NotifyStep(1)
    \/ NotifyReturn(1)
    \/ \E n \in notifiers : RunNotifier(n)
    \/ Tick

SpecNotify == InitFiles /\ [][NextNotify]_vars

\* One capture_fullscreen call with a generated name, a caller's path with
\* an extension, or a caller's path without one, in either image format.
NextSave ==
    \/ \E sp \in {NoPath, ExplicitPath, DottedDirPath} :
          ncalls = 0 /\ Call(1, "fullscreen", sp, "", <<>>)
    \/ PrepareCapture(1)
    \/ FullscreenCapture(1)
    \/ SaveImage(1)
    \/ NotifyStep(1)
    \/ NotifyReturn(1)
    \/ \E n \in notifiers : RunNotifier(n)
    \/ SetupCallbacks
    \/ ScreenChange
    \/ Tick

SpecSave == InitFiles /\ [][NextSave]_vars

\* _sanitize_filename on every string of up to MaxLen characters of the
\* alphabet, and on those strings behind a run of letters that brings them
\* to the 50-character limit.
Alphabet ==
    {"a", "_", ".", " ", "\t"} \cup InvalidChars \cup NonAscii
ShortStrings == UNION {[1..n -> Alphabet] : n \in 0..MaxLen}
Letters(n) == [i \in 1..n |-> "a"]
LongStrings ==
    {Letters(n) \o str : n \in {MaxFilename - 2, MaxFilename - 1, MaxFilename},
                         str \in UNION {[1..k -> Alphabet] : k \in 0..2}}

InitProbe ==
    /\ Init
    /\ screen = 0
    /\ image_format = "PNG"
    /\ ~windows_available
    /\ foreground = NoApp

Sanitize(filename) ==
    /\ probe = NoProbe
    /\ probe' = [fn |-> "sanitize", done |-> TRUE, input |-> filename,
                 output |-> SanitizeFilename(filename)]
    /\ UNCHANGED probeFrame

NextSanitize == \E filename \in ShortStrings \cup LongStrings : Sanitize(filename)

SpecSanitize == InitProbe /\ [][NextSanitize]_vars

\* The detector alone: get_current_app and clear_history called one after
\* the other while the foreground window and the clock change.
DetectorFields ==
    [cached_app |-> cached_app, last_detection_time |-> last_detection_time,
     app_history |-> app_history]
NoDetection == [app |-> NoApp, time |-> 0]
NoResult == [hit |-> FALSE, app |-> NoApp]

GetCurrentAppCall(use_cache, ok) ==
    LET d == IF use_cache THEN GetCurrentApp(now, foreground, ok)
             ELSE DetectForeground(now, foreground, ok)
        first == probe.fn # "get_current_app"
    IN  /\ cached_app' = d.cached_app
        /\ last_detection_time' = d.last_detection_time
        /\ app_history' = d.app_history
        /\ probe' = [fn |-> "get_current_app", done |-> TRUE,
                     use_cache |-> use_cache, time |-> now,
                     result |-> d.app, queried |-> d.queried,
                     before |-> DetectorFields,
                     after |-> [cached_app |-> d.cached_app,
                                last_detection_time |-> d.last_detection_time,
                                app_history |-> d.app_history],
                     since |-> IF first THEN NoDetection ELSE probe.detection,
                     detection |->
                         IF d.queried /\ d.app # NoApp
                         THEN [app |-> d.app, time |-> now]
                         ELSE IF first THEN NoDetection ELSE probe.detection,
                     previous |->
                         IF first THEN NoResult
                         ELSE [hit |-> ~probe.queried, app |-> probe.result]]
        /\ UNCHANGED <<envVars, files, guardVars, callbackVars, stats, call,
                       selector, notifyVars, session, ncalls, monitor,
                       hotkeys, sideVars>>

ClearHistory ==
    /\ app_history' = <<>>
    /\ UNCHANGED <<serviceVars, envVars, files, cached_app,
                   last_detection_time, guardVars, callbackVars, stats, call,
                   selector, notifyVars, session, ncalls>>

InitDetector ==
    /\ Init
    /\ screen = 0
    /\ image_format = "PNG"
    /\ ~windows_available

NextDetector ==
    \/ \E use_cache \in BOOLEAN, ok \in BOOLEAN : GetCurrentAppCall(use_cache, ok)
    \/ ClearHistory
    \/ ForegroundChange
    \/ Tick

SpecDetector == InitDetector /\ [][NextDetector]_vars

\* The history against the detections made: get_current_app(use_cache=False)
\* called one after the other with any of three windows in front, two of
\* them of the same process; from an empty history, and from one that 48
\* detections of alternating processes have filled.
EditorDialog == [Editor EXCEPT !.window_title = <<"d">>]
HistoryWindows == {Editor, EditorDialog, Player}
Alternating(n) == [i \in 1..n |-> IF i % 2 = 1 THEN Editor ELSE Player]

InitHistory ==
    /\ Init
    /\ screen = 0
    /\ image_format = "PNG"
    /\ ~windows_available
    /\ foreground = NoApp

FillHistory ==
    /\ detections = <<>>
    /\ detections' = Alternating(FilledHistory)
    /\ app_history' = Alternating(FilledHistory)
    /\ cached_app' = Alternating(FilledHistory)[FilledHistory]
    /\ foreground' = Alternating(FilledHistory)[FilledHistory]
    /\ UNCHANGED <<probe, monitor, hotkeys, updating, memory, settings, screen, now,
                   files, image_format, windows_available,
                   last_detection_time, guardVars, callbackVars, stats, call,
                   selector, notifyVars, session, ncalls>>

DetectionsLeft ==
    \/ Len(detections) < MaxDetections
    \/ /\ Len(detections) >= FilledHistory
       /\ Len(detections) < FilledHistory + MaxDetections

\* One get_current_app(use_cache=False) while window w is in front.
DetectWindow(w, ok) ==
    LET d == DetectForeground(now, w, ok)
    IN  /\ DetectionsLeft
        /\ foreground' = w
        /\ cached_app' = d.cached_app
        /\ last_detection_time' = d.last_detection_time
        /\ app_history' = d.app_history
        /\ detections' = IF d.app # NoApp THEN Append(detections, d.app)
                         ELSE detections
        /\ UNCHANGED <<probe, monitor, hotkeys, updating, memory, settings, screen, now,
                       files, image_format, windows_available, guardVars,
                       callbackVars, stats, call, selector, notifyVars,
                       session, ncalls>>

NextHistory ==
    \/ FillHistory
    \/ \E w \in HistoryWindows \cup {NoApp}, ok \in BOOLEAN : DetectWindow(w, ok)

SpecHistory == InitHistory /\ [][NextHistory]_vars

\* get_current_app entered by two threads, the poll loop and another caller,
\* one statement at a time: nothing in AppDetector holds a lock. What the
\* steps below leave alone:
raceFrame == <<probe, monitor, hotkeys, memory, settings, screen, now, files,
               image_format, windows_available, foreground, guardVars,
               callbackVars, stats, call, selector, notifyVars, session,
               ncalls>>

InUpdate(t) == updating[t].pc # "idle"

\* The cache test and the platform query (lines 117-131).
EnterGetCurrentApp(t, use_cache, ok) ==
    /\ ~InUpdate(t)
    /\ DetectionsLeft
    /\ ~(use_cache /\ cached_app # NoApp
                   /\ now - last_detection_time < CacheTicks)
    /\ ok /\ foreground # NoApp
    /\ updating' = [updating EXCEPT ![t] =
          [pc |-> "store", app_info |-> foreground]]
    /\ detections' = Append(detections, foreground)
    /\ UNCHANGED <<raceFrame, detectorVars>>

\* self.cached_app = app_info; self.last_detection_time = current_time.
StoreCache(t) ==
    /\ updating[t].pc = "store"
    /\ cached_app' = updating[t].app_info
    /\ last_detection_time' = now
    /\ updating' = [updating EXCEPT ![t].pc = "check"]
    /\ UNCHANGED <<raceFrame, app_history, detections>>

\* The test of _update_history (line 503).
CheckLast(t) ==
    /\ updating[t].pc = "check"
    /\ updating' = [updating EXCEPT ![t] =
          IF app_history = <<>>
                \/ app_history[Len(app_history)].name # @.app_info.name
          THEN [@ EXCEPT !.pc = "append"]
          ELSE IdleUpdate]
    /\ UNCHANGED <<raceFrame, detectorVars, detections>>

\* self.app_history.append(app_info) (line 504).
AppendEntry(t) ==
    /\ updating[t].pc = "append"
    /\ app_history' = Append(app_history, updating[t].app_info)
    /\ updating' = [updating EXCEPT ![t].pc = "len"]
    /\ UNCHANGED <<raceFrame, cached_app, last_detection_time, detections>>

\* The test of the length (line 507).
CheckLength(t) ==
    /\ updating[t].pc = "len"
    /\ updating' = [updating EXCEPT ![t] =
          IF Len(app_history) > MaxHistory THEN [@ EXCEPT !.pc = "trim"]
          ELSE IdleUpdate]
    /\ UNCHANGED <<raceFrame, detectorVars, detections>>

\* self.app_history = self.app_history[-25:] (line 508).
TrimHistory(t) ==
    /\ updating[t].pc = "trim"
    /\ app_history' =
          IF Len(app_history) > KeptHistory
          THEN SubSeq(app_history, Len(app_history) - KeptHistory + 1,
                      Len(app_history))
          ELSE app_history
    /\ updating' = [updating EXCEPT ![t] = IdleUpdate]
    /\ UNCHANGED <<raceFrame, cached_app, last_detection_time, detections>>

NextRace ==
    \/ (\A t \in Threads : ~InUpdate(t)) /\ FillHistory
    \/ \E t \in Threads, use_cache \in BOOLEAN, ok \in BOOLEAN :
          EnterGetCurrentApp(t, use_cache, ok)
    \/ \E t \in Threads : StoreCache(t)
    \/ \E t \in Threads : CheckLast(t)
    \/ \E t \in Threads : AppendEntry(t)
    \/ \E t \in Threads : CheckLength(t)
    \/ \E t \in Threads : TrimHistory(t)
    \/ ForegroundChange

SpecRace == InitHistory /\ [][NextRace]_vars

\* ------------------------------------------------------------ MemoryManager
memoryFrame == <<captureVars, probe, monitor, hotkeys, detections, updating,
                settings>>
settingsFrame == <<captureVars, probe, monitor, hotkeys, detections, updating,
                  memory>>

\* optimize_for_screenshots, which _prepare_capture calls at the start of
\* every capture: the threshold is lowered and a thread is started that
\* sleeps 60 seconds and then assigns the threshold read here.
LoweredThreshold(original_threshold) ==
    Min(Megabytes(ScreenshotThreshold), (original_threshold * 6) \div 10)

OptimizeForScreenshots ==
    /\ memory.optimized < MaxCalls
    /\ memory' =
          [memory EXCEPT
              !.memory_threshold_mb = LoweredThreshold(@),
              !.restorers = Append(@,
                  [original_threshold |-> memory.memory_threshold_mb,
                   slept |-> 0]),
              !.optimized = @ + 1]
    /\ UNCHANGED memoryFrame

\* restore_threshold after its sleep.
RestoreThreshold(i) ==
    /\ i \in 1..Len(memory.restorers)
    /\ memory.restorers[i].slept = RestoreDelay
    /\ memory' =
          [memory EXCEPT
              !.memory_threshold_mb = memory.restorers[i].original_threshold,
              !.restorers = SubSeq(@, 1, i - 1) \o SubSeq(@, i + 1, Len(@))]
    /\ UNCHANGED memoryFrame

\* One second passes for every restore thread; a thread whose sleep is over
\* runs before more time passes.
ElapseRestore ==
    /\ memory.restorers # <<>>
    /\ \A i \in 1..Len(memory.restorers) :
          memory.restorers[i].slept < RestoreDelay
    /\ memory' = [memory EXCEPT !.restorers =
          [i \in 1..Len(@) |-> [@[i] EXCEPT !.slept = @ + 1]]]
    /\ UNCHANGED memoryFrame

NextMemory ==
    \/ OptimizeForScreenshots
    \/ \E i \in 1..MaxCalls : RestoreThreshold(i)
    \/ ElapseRestore

SpecMemory == InitHistory /\ [][NextMemory]_vars

\* _get_precise_window_coordinates. The window: its outer rectangle
\* <<left, top, right, bottom>>, its client rectangle, the bits of its style,
\* and which of the platform calls raises.
WindowLefts == {-8, 0}
OuterWidths == {0, 10, 40, 200}
OuterHeights == {0, 5, 36, 150}
ClientWidths == {0, 10, 24, 184}
ClientHeights == {0, 5, 120}
WindowStyles ==
    [border : BOOLEAN, dlgframe : BOOLEAN, popup : BOOLEAN,
     maximize : BOOLEAN]
PlatformFailures ==
    {"none", "GetWindowRect", "GetWindowRectTwice", "GetClientRect",
     "GetWindowLong", "ClientToScreen"}
ReportedWindows ==
    {w \in [left : WindowLefts, width : OuterWidths, height : OuterHeights,
            client_width : ClientWidths, client_height : ClientHeights,
            style : WindowStyles, failure : PlatformFailures] :
        /\ w.client_width <= w.width
        /\ w.client_height <= w.height}

\* style & WS_CAPTION: WS_CAPTION is WS_BORDER | WS_DLGFRAME.
HasCaptionBits(style) == style.border \/ style.dlgframe

PreciseWindowCoordinates(w) ==
    LET x == w.left
        y == 0
        width == w.width
        height == w.height
        border_width == (width - w.client_width) \div 2
        title_height == height - w.client_height - border_width
        estimated_border == Max(border_width, MinEstimatedBorder)
        estimated_title == Max(title_height, MinEstimatedTitle)
    IN  IF w.failure = "GetWindowRectTwice"
        THEN <<0, 0, DefaultWidth, DefaultHeight>>
        ELSE IF w.failure \in {"GetWindowRect", "GetClientRect", "GetWindowLong"}
        THEN <<x, y, width, height>>
        ELSE IF ~w.style.border \/ w.style.popup
        THEN <<x, y, width, height>>
        ELSE IF w.style.maximize
        THEN <<x + InvisibleBorder, y, width - 2 * InvisibleBorder,
               height - InvisibleBorder>>
        ELSE IF HasCaptionBits(w.style)
        THEN IF w.failure # "ClientToScreen"
             THEN <<x + border_width, y + title_height, w.client_width,
                    w.client_height>>
             ELSE <<x + estimated_border, y + estimated_title,
                    width - 2 * estimated_border,
                    height - estimated_title - estimated_border>>
        ELSE <<x, y, width, height>>

ResolveCoordinates(w) ==
    /\ probe = NoProbe
    /\ probe' = [fn |-> "coordinates", done |-> TRUE, input |-> w,
                 output |-> PreciseWindowCoordinates(w)]
    /\ UNCHANGED probeFrame

NextCoordinates == \E w \in ReportedWindows : ResolveCoordinates(w)

SpecCoordinates == InitProbe /\ [][NextCoordinates]_vars

\* _is_window_fullscreen. The window: its rectangle <<x, y, width, height>>,
\* the rectangle <<left, top, right, bottom>> of the monitor nearest to it,
\* the WS_POPUP and WS_BORDER bits of its style, and whether a query of the
\* platform raises.
Abs(n) == IF n < 0 THEN 0 - n ELSE n

FallbackFullscreen(w) ==
    /\ w.window_rect[3] > FallbackWidth
    /\ w.window_rect[4] > FallbackHeight
    /\ w.window_rect[1] <= FallbackOrigin
    /\ w.window_rect[2] <= FallbackOrigin

IsWindowFullscreen(w) ==
    LET x == w.window_rect[1]
        y == w.window_rect[2]
        width == w.window_rect[3]
        height == w.window_rect[4]
        monitor_width == w.monitor_rect[3] - w.monitor_rect[1]
        monitor_height == w.monitor_rect[4] - w.monitor_rect[2]
        covers_width == width >= monitor_width - FullscreenTolerance
        covers_height == height >= monitor_height - FullscreenTolerance
        near_left == Abs(x - w.monitor_rect[1]) <= FullscreenTolerance
        near_top == Abs(y - w.monitor_rect[2]) <= FullscreenTolerance
        is_popup == w.popup
        has_no_border == ~w.border
        size_match == covers_width /\ covers_height
        position_match == near_left /\ near_top
        style_match == is_popup \/ has_no_border
    IN  IF w.raises THEN FallbackFullscreen(w)
        ELSE size_match /\ (position_match \/ style_match)

\* Two monitors side by side, and windows around the tolerance on each of
\* them.
Monitors == {<<0, 0, 1920, 1080>>, <<1920, 0, 3840, 1080>>}
ClassifiedWindows ==
    [window_rect : {0, 10, 11, 1920} \X {0, 11}
                      \X {200, 1801, 1909, 1910, 1920, 1931}
                      \X {100, 1001, 1069, 1070, 1080},
     monitor_rect : Monitors, popup : BOOLEAN, border : BOOLEAN,
     raises : BOOLEAN]

ClassifyFullscreen(w) ==
    /\ probe = NoProbe
    /\ probe' = [fn |-> "fullscreen", done |-> TRUE, input |-> w,
                 output |-> IsWindowFullscreen(w)]
    /\ UNCHANGED probeFrame

NextFullscreen == \E w \in ClassifiedWindows : ClassifyFullscreen(w)

SpecFullscreen == InitProbe /\ [][NextFullscreen]_vars

\* _find_main_window_by_pid. EnumWindows passes the top-level windows to
\* enum_windows_proc in some order; a window: its handle, the process that
\* owns it, IsWindowVisible, whether GetWindowText is non-empty, whether
\* GetParent is non-zero, its size, and whether a query on it raises.
NoWindow == 0

\* The tests of enum_windows_proc that make it keep a window and stop.
TakesWindow(w, pid) ==
    /\ ~w.raises
    /\ w.pid = pid
    /\ w.visible /\ w.titled /\ ~w.parent
    /\ w.width > MainWindowSide /\ w.height > MainWindowSide

FindMainWindowByPid(pid, enumeration, available) ==
    LET taken == {i \in 1..Len(enumeration) : TakesWindow(enumeration[i], pid)}
    IN  IF ~available \/ taken = {} THEN NoWindow
        ELSE enumeration[CHOOSE i \in taken : \A j \in taken : i <= j].hwnd

EnumeratedSizes == {<<100, 300>>, <<400, 300>>, <<800, 600>>}
EnumeratedWindow(hwnd) ==
    {[hwnd |-> hwnd, pid |-> p, visible |-> v, titled |-> t, parent |-> c,
      width |-> size[1], height |-> size[2], raises |-> r] :
        p \in {1, 2}, v \in BOOLEAN, t \in BOOLEAN, c \in BOOLEAN,
        size \in EnumeratedSizes, r \in BOOLEAN}
\* Two windows, in both orders.
Enumerations ==
    {<<a, b>> : a \in EnumeratedWindow(1), b \in EnumeratedWindow(2)}
        \cup {<<b, a>> : a \in EnumeratedWindow(1), b \in EnumeratedWindow(2)}

FindMainWindow(enumeration, available) ==
    /\ probe = NoProbe
    /\ probe' = [fn |-> "find_main_window", done |-> TRUE, pid |-> 1,
                 input |-> enumeration, available |-> available,
                 output |-> FindMainWindowByPid(1, enumeration, available)]
    /\ UNCHANGED probeFrame

NextFindWindow ==
    /\ probe = NoProbe
    /\ \E enumeration \in Enumerations, available \in BOOLEAN :
          FindMainWindow(enumeration, available)

SpecFindWindow == InitProbe /\ [][NextFindWindow]_vars

\* The region of _capture_window_region_corrected for rectangles around
\* every limit of the validation, on screens larger and smaller than the
\* smallest window accepted.
ScreenSizes == {<<ScreenW, ScreenH>>, <<40, 40>>, <<200, 100>>}
RegionRectangles ==
    {0 - OffscreenTolerance - 1, 0 - OffscreenTolerance, 0 - 4, 0, 30, 64, 300}
       \X {0 - OffscreenTolerance, 0, 60}
       \X {0, MinWindowSide - 1, MinWindowSide, 64, 65, 128, 129, 400}
       \X {MinWindowSide - 1, MinWindowSide, 56, 112, 113}

GrabRegion(r, size) ==
    /\ probe = NoProbe
    /\ probe' = [fn |-> "region", done |-> TRUE, input |-> r, screen |-> size,
                 valid |-> ValidCoordinates(r[1], r[2], r[3], r[4],
                                            size[1], size[2]),
                 output |-> ClampRegion(r, size[1], size[2])]
    /\ UNCHANGED probeFrame

NextRegion ==
    /\ probe = NoProbe
    /\ \E r \in RegionRectangles, size \in ScreenSizes : GrabRegion(r, size)

SpecRegion == InitProbe /\ [][NextRegion]_vars

\* _generate_filename in a folder that holds any of the files a run of
\* conflicts can meet: the composed name, and that name followed by _1, _2,
\* _3, _1_2 or _1_2_3.
ComposedPath(prefix, fmt) ==
    [folder |-> "default", prefix |-> prefix, stamp |-> 0, suffix |-> <<>>,
     ext |-> Extension(fmt)]
ConflictSuffixes == {<<>>, <<1>>, <<2>>, <<3>>, <<1, 2>>, <<1, 2, 3>>}
FolderContents(prefix, fmt) ==
    SUBSET {[ComposedPath(prefix, fmt) EXCEPT !.suffix = x] :
               x \in ConflictSuffixes}

ResolveFilename(prefix, fmt, existing) ==
    /\ probe = NoProbe
    /\ probe' = [fn |-> "generate_filename", done |-> TRUE,
                 existing |-> existing, base |-> ComposedPath(prefix, fmt),
                 tried |-> ConflictCandidates(existing,
                                              ComposedPath(prefix, fmt), 1),
                 output |-> GenerateFilename(existing, "", prefix, 0, fmt)]
    /\ UNCHANGED probeFrame

NextFilename ==
    /\ probe = NoProbe
    /\ \E prefix \in {<<>>, <<"a">>}, fmt \in Formats :
          \E existing \in FolderContents(prefix, fmt) :
             ResolveFilename(prefix, fmt, existing)

SpecFilename == InitProbe /\ [][NextFilename]_vars

\* ------------------------------------------------- AppDetector monitoring
Alive(l) == monitor.loops[l].pc \in {"check", "poll", "sleep"}
Unused(l) == monitor.loops[l].pc = "none"

\* start_monitoring(interval), called from the controlling thread.
StartMonitoring(interval) ==
    /\ monitor.caller.pc = "idle"
    /\ \E l \in LoopIds : Unused(l)
    /\ IF monitor.monitoring
       THEN monitor' = [monitor EXCEPT !.returned = "already"]
       ELSE LET l == CHOOSE k \in LoopIds :
                         Unused(k) /\ \A j \in LoopIds : Unused(j) => k <= j
            IN  monitor' =
                    [monitor EXCEPT
                        !.monitoring = TRUE,
                        !.monitor_thread = l,
                        !.loops[l] = [IdleLoop EXCEPT !.pc = "check",
                                                      !.interval = interval],
                        !.starts = @ + 1,
                        !.returned = "started"]
    /\ UNCHANGED monitorFrame

\* stop_monitoring up to the join: the flag is cleared, then the caller
\* joins monitor_thread if it is alive.
StopMonitoring ==
    /\ monitor.caller.pc = "idle"
    /\ IF monitor.monitor_thread # 0 /\ Alive(monitor.monitor_thread)
       THEN monitor' = [monitor EXCEPT !.monitoring = FALSE,
                                       !.caller = [pc |-> "joining", waited |-> 0],
                                       !.returned = "none"]
       ELSE monitor' = [monitor EXCEPT !.monitoring = FALSE,
                                       !.returned = "stopped"]
    /\ UNCHANGED monitorFrame

\* join(timeout=3.0) returns: the thread has ended, or the timeout is over.
JoinReturn ==
    /\ monitor.caller.pc = "joining"
    /\ \/ ~Alive(monitor.monitor_thread)
       \/ monitor.caller.waited = JoinTimeout
    /\ monitor' = [monitor EXCEPT
                      !.caller = [pc |-> "idle", waited |-> 0],
                      !.returned = IF Alive(monitor.monitor_thread)
                                   THEN "timeout" ELSE "stopped"]
    /\ UNCHANGED monitorFrame

\* Mutant: the loop does not look at the flag again.
LoopCheckOnce(l) ==
    /\ monitor.loops[l].pc = "check"
    /\ monitor' = [monitor EXCEPT !.loops[l].pc = "poll"]
    /\ UNCHANGED monitorFrame

\* _monitor_loop: the test of `while self.monitoring`.
LoopCheck(l) ==
    /\ monitor.loops[l].pc = "check"
    /\ monitor' = [monitor EXCEPT
                      !.loops[l].pc = IF monitor.monitoring THEN "poll"
                                      ELSE "done"]
    /\ UNCHANGED monitorFrame

\* add_update_callback(callback).
AddUpdateCallback(c) ==
    /\ Len(monitor.update_callbacks) < MaxUpdateCallbacks
    /\ monitor' = [monitor EXCEPT !.update_callbacks = Append(@, c)]
    /\ UNCHANGED monitorFrame

\* The test of _monitor_loop on what the poll returned (line 544).
\* Mutant: every window found counts as a change.
AppChangedAlways(app, last_app_name) == app # NoApp

AppChanged(app, last_app_name) == app # NoApp /\ app.name # last_app_name

\* The for loop over update_callbacks (lines 554-558): one record per
\* invocation, with the argument passed and self.current_app at that time;
\* raises: the positions of the callbacks that raise.
\* Mutant: the first exception ends the for loop.
InvokeCallbacksUntilRaise(callbacks, app, current, raises) ==
    LET last == IF raises = {} THEN Len(callbacks)
                ELSE CHOOSE i \in raises : \A j \in raises : i <= j
    IN  [i \in 1..last |->
            [callback |-> callbacks[i], app |-> app, current_app |-> current,
             raised |-> i \in raises]]

InvokeCallbacks(callbacks, app, current, raises) ==
    [i \in 1..Len(callbacks) |->
        [callback |-> callbacks[i], app |-> app, current_app |-> current,
         raised |-> i \in raises]]

\* _monitor_loop: one pass of the body up to the sleep. notified is what
\* this pass invoked.
Poll(l, ok) ==
    /\ monitor.loops[l].pc = "poll"
    /\ \E raises \in SUBSET (1..Len(monitor.update_callbacks)) :
       LET d == DetectForeground(now, foreground, ok)
           changed == AppChanged(d.app, monitor.loops[l].last_app_name)
       IN  /\ cached_app' = d.cached_app
           /\ last_detection_time' = d.last_detection_time
           /\ app_history' = d.app_history
           /\ monitor' =
                [monitor EXCEPT
                    !.current_app = IF changed THEN d.app ELSE @,
                    !.notified =
                        IF changed
                        THEN InvokeCallbacks(monitor.update_callbacks, d.app,
                                             d.app, raises)
                        ELSE <<>>,
                    !.loops[l] = [@ EXCEPT
                        !.pc = "sleep",
                        !.slept = 0,
                        !.current_app = d.app,
                        !.polled = monitor.starts,
                        !.last_app_name = IF changed THEN d.app.name ELSE @]]
    /\ UNCHANGED <<probe, hotkeys, sideVars, envVars, files, guardVars,
                   callbackVars, stats, call, selector, notifyVars, session,
                   ncalls>>

\* time.sleep(interval) is over.
Wake(l) ==
    /\ monitor.loops[l].pc = "sleep"
    /\ monitor.loops[l].slept = monitor.loops[l].interval
    /\ monitor' = [monitor EXCEPT !.loops[l].pc = "check"]
    /\ UNCHANGED monitorFrame

\* One second passes: for the joining caller and for every sleeping loop.
\* The steps of a loop between two sleeps take no time.
Elapse ==
    /\ monitor.caller.pc = "joining" \/ \E l \in LoopIds : monitor.loops[l].pc = "sleep"
    /\ monitor.caller.pc = "joining" => monitor.caller.waited < JoinTimeout
    /\ \A l \in LoopIds :
          /\ monitor.loops[l].pc \notin {"check", "poll"}
          /\ monitor.loops[l].pc = "sleep" =>
                monitor.loops[l].slept < monitor.loops[l].interval
    /\ monitor' =
          [monitor EXCEPT
              !.caller.waited = IF monitor.caller.pc = "joining" THEN @ + 1 ELSE @,
              !.loops = [l \in LoopIds |->
                            IF monitor.loops[l].pc = "sleep"
                            THEN [monitor.loops[l] EXCEPT !.slept = @ + 1]
                            ELSE monitor.loops[l]]]
    /\ UNCHANGED monitorFrame

InitMonitor ==
    /\ Init
    /\ screen = 0
    /\ image_format = "PNG"
    /\ ~windows_available
    /\ foreground \in {Editor, NoApp}

NextMonitor ==
    \/ \E interval \in PollIntervals : StartMonitoring(interval)
    \/ StopMonitoring
    \/ JoinReturn
    \/ \E l \in LoopIds : LoopCheck(l)
    \/ \E l \in LoopIds, ok \in BOOLEAN : Poll(l, ok)
    \/ \E l \in LoopIds : Wake(l)
    \/ Elapse

SpecMonitor == InitMonitor /\ [][NextMonitor]_vars

\* The scheduler runs every thread that can run, and time passes.
FairMonitor ==
    /\ WF_vars(JoinReturn)
    /\ WF_vars(Elapse)
    /\ \A l \in LoopIds :
          /\ WF_vars(LoopCheck(l))
          /\ WF_vars(\E ok \in BOOLEAN : Poll(l, ok))
          /\ WF_vars(Wake(l))

SpecMonitorFair == InitMonitor /\ [][NextMonitor]_vars /\ FairMonitor

\* Monitoring with callbacks registered before and while the loop runs, and
\* the foreground window changing between polls until the history holds
\* MaxDetections entries. Monitoring is started and never stopped.
UpdateCallbackIds == 1..MaxUpdateCallbacks

NextCallbacks ==
    \/ \E c \in UpdateCallbackIds : AddUpdateCallback(c)
    \/ \E interval \in PollIntervals : StartMonitoring(interval)
    \/ \E l \in LoopIds : LoopCheck(l)
    \/ \E l \in LoopIds, ok \in BOOLEAN : Poll(l, ok)
    \/ \E l \in LoopIds : Wake(l)
    \/ Elapse
    \/ Len(app_history) < MaxDetections /\ ForegroundChange

SpecCallbacks == InitMonitor /\ [][NextCallbacks]_vars

SpecCallbacksFair == InitMonitor /\ [][NextCallbacks]_vars /\ FairMonitor

\* ----------------------------------------------------------- HotkeyManager
\* min_interval (0.5 s) in ticks.
MinIntervalTicks == TicksPerSecond \div 2

\* Weak references: to a bound method of the GUI, which lives as long as the
\* window, and to the closure _create_default_callback returns, which
\* nothing else refers to.
GuiHandler(action) ==
    [target |-> "gui_handler", action |-> action, alive |-> TRUE]
DefaultCallback(action) ==
    [target |-> "default_callback", action |-> action, alive |-> TRUE]

\* add_action_callback(action, callback): the table afterwards.
AddActionCallback(callbacks, action, ref) ==
    IF callbacks[action].present
    THEN [callbacks EXCEPT ![action].refs = Append(@, ref)]
    ELSE callbacks

\* The add_action_callback calls of _setup_callbacks from the i-th on.
RECURSIVE AttachHandlers(_, _)
AttachHandlers(callbacks, i) ==
    IF i > Len(DefaultActions) THEN callbacks
    ELSE AttachHandlers(
             AddActionCallback(callbacks, DefaultActions[i],
                               GuiHandler(DefaultActions[i])), i + 1)

SetupHotkeyCallbacks ==
    /\ hotkeys.pc = "setup"
    /\ hotkeys' =
          [hotkeys EXCEPT
              !.pc = "start",
              !.hotkey_callbacks = AttachHandlers(@, 1),
              !.attached = {a \in HotkeyActions : hotkeys.hotkey_callbacks[a].present}]
    /\ UNCHANGED <<now, hotkeyFrame>>

\* register_hotkey(action, hotkey, callback) with a valid hotkey and
\* override = False; hook_ok: keyboard.add_hotkey did not raise.
RegisterHotkey(h, action, ref, hook_ok) ==
    IF action \in h.active_hotkeys THEN h
    ELSE [h EXCEPT
             !.hotkey_callbacks[action] =
                 [present |-> TRUE, refs |-> Append(@.refs, ref)],
             !.active_hotkeys = IF hook_ok THEN @ \cup {action} ELSE @]

\* _register_default_hotkeys from the i-th action on.
RECURSIVE RegisterDefaultHotkeys(_, _, _)
RegisterDefaultHotkeys(h, i, hook_ok) ==
    IF i > Len(DefaultActions) THEN h
    ELSE RegisterDefaultHotkeys(
             RegisterHotkey(h, DefaultActions[i],
                            DefaultCallback(DefaultActions[i]), hook_ok),
             i + 1, hook_ok)

\* HotkeyManager.start_monitoring, called by _start_services after
\* _setup_callbacks.
StartHotkeyMonitoring(hook_ok) ==
    /\ hotkeys.pc = "start"
    /\ ~hotkeys.monitoring
    /\ hotkeys' = [RegisterDefaultHotkeys(hotkeys, 1, hook_ok) EXCEPT
                      !.monitoring = TRUE, !.pc = "running"]
    /\ UNCHANGED <<now, hotkeyFrame>>

\* The closure behind a weak reference is reclaimed: at once under reference
\* counting, at some later time under another collector.
CollectGarbage(action) ==
    /\ \E i \in 1..Len(hotkeys.hotkey_callbacks[action].refs) :
          LET r == hotkeys.hotkey_callbacks[action].refs[i]
          IN  /\ r.target = "default_callback"
              /\ r.alive
              /\ hotkeys' = [hotkeys EXCEPT
                                !.hotkey_callbacks[action].refs[i].alive = FALSE]
    /\ UNCHANGED <<now, hotkeyFrame>>

IsAlive(ref) == ref.alive

\* trigger_wrapper of the action, called by the keyboard hook.
TriggerHotkey(action) ==
    /\ action \in hotkeys.active_hotkeys
    /\ hotkeys.stats.total_triggers + hotkeys.stats.blocked_repeats < MaxTriggers
    /\ LET last == hotkeys.last_trigger_time[action]
           entry == hotkeys.hotkey_callbacks[action]
           live == SelectSeq(entry.refs, IsAlive)
       IN  IF last # -1 /\ now - last < MinIntervalTicks
           THEN hotkeys' =
                   [hotkeys EXCEPT
                       !.stats.blocked_repeats = @ + 1,
                       !.trigger = [action |-> action, debounced |-> TRUE,
                                    invoked |-> {}]]
           ELSE hotkeys' =
                   [hotkeys EXCEPT
                       !.last_trigger_time[action] = now,
                       !.stats.total_triggers = @ + 1,
                       !.stats.successful_triggers =
                           IF entry.present THEN @ + Len(live) ELSE @,
                       !.hotkey_callbacks[action].refs =
                           IF entry.present THEN live ELSE @,
                       !.trigger =
                           [action |-> action, debounced |-> FALSE,
                            invoked |-> IF entry.present
                                        THEN {live[i].target : i \in 1..Len(live)}
                                        ELSE {}]]
    /\ UNCHANGED <<now, hotkeyFrame>>

NextHotkeys ==
    \/ SetupHotkeyCallbacks
    \/ \E hook_ok \in BOOLEAN : StartHotkeyMonitoring(hook_ok)
    \/ \E action \in HotkeyActions : CollectGarbage(action)
    \/ \E action \in HotkeyActions : TriggerHotkey(action)
    \/ Tick

SpecHotkeys == InitProbe /\ [][NextHotkeys]_vars

\* ------------------------------------------------------------------ claims
Running(t) == call[t].pc \notin {"idle", "done"}

\* The notifier threads started for call c, run or not yet run.
Dispatched(c, kind) ==
    {[call |-> n.call, n |-> n.n, kind |-> n.kind, ctype |-> n.ctype,
      path |-> n.path, msg |-> n.msg] : n \in {m \in notifiers : m.call = c /\ m.kind = kind}}
    \cup
    {[call |-> r.call, n |-> r.n, kind |-> r.kind, ctype |-> r.ctype,
      path |-> r.path, msg |-> r.msg] : r \in {q \in fired : q.call = c /\ q.kind = kind}}

\* The invocations of a registered callback made for call c.
Fired(c, kind) == {r \in fired : r.call = c /\ r.kind = kind}

\* C1: the image capture_area_selection is about to save is the crop of the
\* snapshot its selection session froze, at the confirmed rectangle, whatever
\* the live screen has become since.
C1_SavedIsFrozenCrop ==
    \A t \in Threads :
        call[t].op = "area" /\ call[t].pc = "save" =>
            LET h == session[call[t].id]
            IN  call[t].screenshot =
                  ScreenGrab("area", h.snapshot, h.region[1], h.region[2],
                             h.region[3], h.region[4])

\* C2: at most one call holds a selection session (and at most one selector
\* exists); a call rejected because another is in flight starts no selector,
\* goes straight to its return of None, and has dispatched exactly one error
\* notification, of type "area" with the already-in-progress message.
C2_OneSessionInFlight ==
    /\ Cardinality({t \in Threads : call[t].holds_guard}) <= 1
    /\ Cardinality({t \in Threads : selector[t] # FreshSelector}) <= 1
    /\ \A t \in Threads :
          call[t].outcome = "rejected" =>
             /\ call[t].pc \in {"notify", "done"}
             /\ call[t].ret = NoPath
             /\ selector[t] = FreshSelector
             /\ ~call[t].holds_guard
             /\ call[t].pc = "notify" =>
                   \E u \in Threads \ {t} : call[u].holds_guard
             /\ call[t].pc = "done" =>
                   /\ Cardinality(Dispatched(call[t].id, "error")) = 1
                   /\ \A d \in Dispatched(call[t].id, "error") :
                         d.ctype = "area" /\ d.msg = AlreadyActiveMsg
                   /\ Dispatched(call[t].id, "complete") = {}

C2_Witness ==
    \E t \in Threads, u \in Threads :
        /\ call[t].outcome = "rejected" /\ call[t].pc = "done"
        /\ call[u].holds_guard /\ call[u].pc = "mainloop"
        /\ \E r \in fired : r.call = call[t].id /\ r.ctype = "area"
                            /\ r.msg = AlreadyActiveMsg

\* C3: the flag is set exactly while some call that acquired it has not yet
\* returned: a call that acquired it has cleared it when it returns, however
\* it ended, and a rejected call leaves the flag of the running session set.
C3_GuardClearedOnReturn ==
    /\ area_selection_active <=> \E t \in Threads : call[t].holds_guard
    /\ \A t \in Threads :
          /\ call[t].holds_guard => Running(t) /\ call[t].outcome # "rejected"
          /\ call[t].outcome = "rejected" /\ call[t].pc = "notify" =>
                area_selection_active

C3_Witness ==
    \E t \in Threads, u \in Threads :
        /\ call[t].pc = "done" /\ call[t].op = "area"
        /\ call[t].outcome = "failure"
        /\ call[u].holds_guard /\ call[u].id > call[t].id

\* C6: a call whose selection session gave no selection (Escape, a failed
\* freeze, a failed overlay or an exception in the event loop) returns None,
\* has written no file, dispatched no callback and left the statistics as
\* they were when it was made.
C6_NoSelectionIsNoOp ==
    \A t \in Threads :
        call[t].op = "area" /\ Running(t) =>
            LET f == call[t]
                h == session[f.id]
            IN  h.ended \in {"escape", "freeze_failed", "interface_failed", "error"} =>
                   /\ f.pc = "finally"
                   /\ f.outcome = "no_selection"
                   /\ f.ret = NoPath
                   /\ stats = h.stats0
                   /\ files = h.files0
                   /\ Dispatched(f.id, "complete") = {}
                   /\ Dispatched(f.id, "error") = {}

\* Escape after a rectangle had been committed.
C6_Witness ==
    \E t \in Threads :
        /\ call[t].pc = "finally"
        /\ session[call[t].id].ended = "escape"
        /\ session[call[t].id].last_drag # NoRegion
        /\ session[call[t].id].last_drag[3] > MinSelection
        /\ session[call[t].id].last_drag[4] > MinSelection

\* C7: the region a session ended by Enter or Space returns is the
\* normalized rectangle of the last drag drawn in it, with width and height
\* above 0; a pointer-down that starts a new drag withdraws the rectangle
\* committed before.
C7_ReturnsLastDrag ==
    \A t \in Threads :
        call[t].op = "area" /\ call[t].pc = "grab" =>
            /\ call[t].region = session[call[t].id].last_drag
            /\ call[t].region[3] > 0
            /\ call[t].region[4] > 0

\* C8: the region a selection session returns lies inside the frozen
\* snapshot.
C8_RegionInsideSnapshot ==
    \A t \in Threads :
        call[t].op = "area" /\ call[t].pc = "grab" =>
            /\ 0 <= call[t].region[1]
            /\ 0 <= call[t].region[2]
            /\ call[t].region[1] + call[t].region[3] <= ScreenW
            /\ call[t].region[2] + call[t].region[4] <= ScreenH

\* The calls made so far.
Calls == 1..ncalls

\* No notifier thread of call c is still to run.
Delivered(c) == \A n \in notifiers : n.call # c

\* C4: a call never has more than one notification dispatched, of either
\* kind; once it has returned, a call that succeeded has dispatched exactly
\* one completion notification and no error notification, a call that failed
\* (or was rejected) exactly one error notification and no completion
\* notification, and once its notifier thread has run, the registered
\* callback of that kind has been invoked exactly once and the other never.
C4_ExactlyOneCallback ==
    /\ \A c \in Calls :
          /\ Cardinality(Dispatched(c, "complete"))
               + Cardinality(Dispatched(c, "error")) <= 1
          /\ Cardinality(Fired(c, "complete"))
               + Cardinality(Fired(c, "error")) <= 1
    /\ \A t \in Threads :
          call[t].pc = "done" =>
             LET c == call[t].id
             IN  /\ call[t].outcome = "success" =>
                       /\ Cardinality(Dispatched(c, "complete")) = 1
                       /\ Delivered(c) => Cardinality(Fired(c, "complete")) = 1
                 /\ call[t].outcome \in {"failure", "rejected"} =>
                       /\ Cardinality(Dispatched(c, "error")) = 1
                       /\ Delivered(c) => Cardinality(Fired(c, "error")) = 1

\* A capture_app_direct call that succeeded through capture_active_window
\* and a call that failed, both with their callback invoked.
C4_Witness ==
    \E t \in Threads, u \in Threads :
        /\ call[t].pc = "done" /\ call[t].op = "direct"
        /\ call[t].outcome = "success"
        /\ Fired(call[t].id, "complete") # {}
        /\ call[u].pc = "done" /\ call[u].outcome = "failure"
        /\ Fired(call[u].id, "error") # {}

\* C5: no exception leaves a capture_* method; a call that failed goes to
\* its error notification and returns None with an error notification
\* dispatched and no completion notification; a call that returned a path
\* succeeded, and a file is written at that path.
C5_NoExceptionEscapes ==
    \A t \in Threads :
        LET f == call[t]
        IN  /\ f.pc # "propagated"
            /\ f.outcome # "exception"
            /\ f.pc = "notify" /\ f.outcome = "failure" =>
                  f.nkind = "error" /\ f.ret = NoPath
            /\ f.pc = "done" /\ f.outcome = "failure" =>
                  /\ f.ret = NoPath
                  /\ Dispatched(f.id, "error") # {}
                  /\ Dispatched(f.id, "complete") = {}
            /\ f.pc = "done" /\ f.ret # NoPath =>
                  /\ f.outcome = "success"
                  /\ f.ret \in DOMAIN files

\* A capture_active_window call whose strategies and fallback all failed and
\* a capture_app_direct call for an application not in front have both
\* returned None, their errors reported.
C5_Witness ==
    \E t \in Threads, u \in Threads, r \in fired, q \in fired :
        /\ call[t].pc = "done" /\ call[t].op = "window" /\ call[t].ret = NoPath
        /\ r.call = call[t].id /\ r.kind = "error" /\ r.msg = "grab"
        /\ call[u].pc = "done" /\ call[u].op = "direct" /\ call[u].ret = NoPath
        /\ q.call = call[u].id /\ q.kind = "error" /\ q.msg = AppNotActiveMsg

\* The frame runs the body of capture_active_window.
WindowFlow(f) == f.op = "window" \/ (f.op = "direct" /\ f.delegated)

\* C9: once a foreground window is detected, capture_active_window reaches
\* the save with an image whatever the three strategies gave; after the
\* detection it fails only when the grab of the whole screen raised or the
\* image could not be encoded.
C9_AlwaysAnImage ==
    \A t \in Threads :
        LET f == call[t]
        IN  WindowFlow(f) =>
               /\ f.pc = "save" => f.screenshot # NoImage
               /\ f.pc = "notify" /\ f.outcome = "failure"
                    /\ f.current_app # NoApp => f.nmsg \in {"grab", "save"}

\* All three strategies ran and gave nothing; the fallback gave the image.
C9_Witness ==
    \E t \in Threads :
        /\ WindowFlow(call[t])
        /\ call[t].pc = "save"
        /\ call[t].attempts = <<"printwindow", "bitblt", "region", "fallback">>
        /\ call[t].screenshot.src = "fallback"

\* C10 as stated: every image capture_active_window is about to save has
\* passed the validity check, whichever of the four strategies produced it.
C10_SavedImageValid ==
    \A t \in Threads :
        WindowFlow(call[t]) /\ call[t].pc = "save" =>
            IsImageValid(call[t].screenshot)

\* C10, amended: every image capture_active_window is about to save, or has
\* saved, that came from one of the first three strategies (composition
\* capture, back-buffer copy, corrected region grab) has passed the validity
\* check; the image of the full-screen fallback is saved as it is, unchecked.
C10_StrategyImageValid ==
    /\ \A t \in Threads :
          WindowFlow(call[t]) /\ call[t].pc = "save"
            /\ call[t].screenshot.src # "fallback" =>
               IsImageValid(call[t].screenshot)
    /\ \A p \in DOMAIN files :
          files[p].src \in {"printwindow", "bitblt", "region"} =>
             IsImageValid(files[p])

\* An image of the region strategy, taken after the two GDI strategies gave
\* nothing, has been saved.
C10_Witness ==
    \E p \in DOMAIN files :
        /\ files[p].src = "region"
        /\ IsImageValid(files[p])

\* The completion notifications dispatched so far, of all calls.
Completions ==
    UNION {Dispatched(c, "complete") : c \in Calls}

\* C11: two captures with generated file names return two distinct paths,
\* also within one timestamp, and the path generated for a capture names no
\* file that exists.
C11_DistinctPaths ==
    /\ \A r \in Completions, q \in Completions :
          r.call # q.call => r.path # q.path
    /\ \A t \in Threads :
          call[t].pc = "save" => call[t].save_path \notin DOMAIN files

\* C12: a capture that has tried to save made one attempt in the configured
\* format at its path; if that succeeded there was no other and the capture
\* returns that path; if it failed there was exactly one more, as PNG, at the
\* same path with the extension replaced by png, and the capture succeeds
\* with that path or fails with the error notification.
C12_OnePngFallback ==
    \A t \in Threads :
        LET f == call[t]
            a == session[f.id].saves
        IN  f.pc = "notify" /\ f.outcome # "rejected" /\ a # <<>> =>
               /\ a[1].format = image_format
               /\ a[1].ok => Len(a) = 1 /\ f.outcome = "success"
                             /\ f.ret = a[1].path
               /\ ~a[1].ok =>
                     /\ Len(a) = 2
                     /\ a[2].format = "PNG"
                     /\ a[2].path = [a[1].path EXCEPT !.ext = "png"]
                     /\ a[2].ok => f.outcome = "success" /\ f.ret = a[2].path
                                   /\ f.nkind = "complete"
                     /\ ~a[2].ok => f.outcome = "failure" /\ f.ret = NoPath
                                    /\ f.nkind = "error"

\* C13: the result of _sanitize_filename is not empty, has at most 50
\* characters, and holds none of < > : " / \ | ? * and no character outside
\* ASCII (emoji among them).
C13_SanitizedIsSafe ==
    probe.fn = "sanitize" =>
        /\ Len(probe.output) >= 1
        /\ Len(probe.output) <= MaxFilename
        /\ \A i \in 1..Len(probe.output) :
              probe.output[i] \notin InvalidChars \cup NonAscii

\* An input over the limit that ends with a forbidden character and an emoji.
C13_Witness ==
    /\ probe.fn = "sanitize"
    /\ probe.input = Letters(MaxFilename - 1) \o <<"<", "emoji">>
    /\ probe.output = Letters(MaxFilename - 1) \o <<"_">>

\* C14: after any sequence of get_current_app and clear_history calls the
\* history holds at most 50 entries and no two adjacent entries have the
\* same process name.
C14_HistoryBounded ==
    /\ Len(app_history) <= MaxHistory
    /\ \A i \in 1..(Len(app_history) - 1) :
          app_history[i].name # app_history[i + 1].name

\* The detection that found 50 entries and left the last 25 of 51.
C14_Witness ==
    /\ probe.fn = "get_current_app"
    /\ Len(probe.before.app_history) = MaxHistory
    /\ Len(app_history) = KeptHistory

\* C15: when a detection succeeded less than a second before and none ran
\* since, get_current_app(use_cache=True) returns the application of that
\* detection without querying the platform and leaves the cache, its
\* timestamp and the history as they were; two such calls in a row return
\* the same application.
C15_CacheHit ==
    probe.fn = "get_current_app" /\ probe.use_cache
        /\ probe.since.app # NoApp
        /\ probe.time - probe.since.time < CacheTicks =>
    /\ ~probe.queried
    /\ probe.result = probe.since.app
    /\ probe.after = probe.before
    /\ probe.previous.hit => probe.result = probe.previous.app

\* A second cached answer, given after the foreground window changed.
C15_Witness ==
    /\ probe.fn = "get_current_app" /\ probe.use_cache
    /\ probe.since.app = Editor
    /\ probe.time = probe.since.time + 1
    /\ probe.previous.hit
    /\ foreground = Player
    /\ probe.result = Editor

\* C18: whatever outer rectangle, client rectangle and style the platform
\* reports, the rectangle that _get_precise_window_coordinates returns has
\* a width and a height of at least 0.
C18_NonNegativeSize ==
    probe.fn = "coordinates" =>
        /\ probe.output[3] >= 0
        /\ probe.output[4] >= 0

\* The loops that are alive and have polled since the latest start.
Polling ==
    {l \in LoopIds : Alive(l) /\ monitor.starts > 0
                       /\ monitor.loops[l].polled = monitor.starts}

\* C16: over any sequence of start_monitoring and stop_monitoring calls, with
\* any poll interval, at most one poll loop is polling at any time.
C16_OnePollLoop == Cardinality(Polling) <= 1

\* C17: once stop_monitoring has cleared the flag, every poll loop ends
\* unless monitoring is started again, and the join of stop_monitoring
\* never waits longer than its timeout and returns.
C17_StopTerminates ==
    /\ [](monitor.caller.pc = "joining" => monitor.caller.waited <= JoinTimeout)
    /\ (monitor.caller.pc = "joining") ~> (monitor.caller.pc = "idle")
    /\ (~monitor.monitoring /\ monitor.starts > 0) ~>
          (monitor.monitoring \/ \A l \in LoopIds : ~Alive(l))

\* stop_monitoring returned on the timeout while the loop slept, and the
\* loop has ended since.
C17_Witness ==
    /\ monitor.returned = "timeout"
    /\ ~monitor.monitoring
    /\ monitor.loops[monitor.monitor_thread].pc = "done"

\* C19: after start-up (_setup_callbacks, then the start of the hotkey
\* monitoring) a trigger of the hotkey of a capture action that is not
\* debounced invokes the capture handler the GUI attached for that action.
C19_TriggerInvokesHandler ==
    hotkeys.pc = "running" /\ hotkeys.trigger.action \in HotkeyActions
        /\ ~hotkeys.trigger.debounced =>
    "gui_handler" \in hotkeys.trigger.invoked

\* The strategies of capture_active_window in the order of the code; the
\* first two exist on Windows only.
StrategyOrder == <<"printwindow", "bitblt", "region", "fallback">>
Rank(s) == CHOOSE i \in 1..Len(StrategyOrder) : StrategyOrder[i] = s
FirstRank == IF windows_available THEN 1 ELSE 3

\* A step in which the call of thread t attempts one more strategy: no
\* earlier attempt had given an image, the strategy is the next one of the
\* order, and an image held afterwards is its result.
AttemptInOrder(t) ==
    LET f == call[t]
        g == call'[t]
        n == Len(f.attempts)
    IN  WindowFlow(f) /\ Len(g.attempts) > n =>
           /\ Len(g.attempts) = n + 1
           /\ SubSeq(g.attempts, 1, n) = f.attempts
           /\ f.screenshot = NoImage
           /\ Rank(g.attempts[n + 1]) = FirstRank + n
           /\ g.screenshot # NoImage => g.screenshot.src = g.attempts[n + 1]

\* A step in which the call of thread t writes its file: the image written
\* is the one the last attempted strategy returned.
SavesFirstImage(t) ==
    LET f == call[t]
    IN  WindowFlow(f) /\ f.pc = "save" /\ files' # files =>
           /\ f.attempts # <<>>
           /\ f.screenshot.src = f.attempts[Len(f.attempts)]
           /\ \E p \in DOMAIN files' : files'[p] = f.screenshot

\* C20: capture_active_window tries the composition capture, the back-buffer
\* copy, the corrected region grab and the full-screen grab in that order, a
\* strategy only when every earlier one gave no usable image, and saves the
\* image of the first strategy that gave one.
C20_StrategiesInOrder ==
    [][\A t \in Threads : AttemptInOrder(t) /\ SavesFirstImage(t)]_vars

\* The composition capture gave nothing, the back-buffer copy gave the image
\* about to be saved, and no later strategy was tried.
C20_Witness ==
    \E t \in Threads :
        /\ WindowFlow(call[t])
        /\ call[t].pc = "save"
        /\ call[t].attempts = <<"printwindow", "bitblt">>
        /\ call[t].screenshot.src = "bitblt"

\* The place after each of the three strategies.
NextStrategy(pc) ==
    CASE pc = "m1" -> "m2" [] pc = "m2" -> "m3" [] pc = "m3" -> "m4"

\* A step of one of the three strategies in the call of thread t: whatever
\* happened inside it, an exception included, the call goes on to the next
\* strategy, and a strategy that raised has given no image.
StrategyKeepsGoing(t) ==
    LET f == call[t]
        g == call'[t]
    IN  WindowFlow(f) /\ f.pc \in {"m1", "m2", "m3"} /\ g # f =>
           /\ g.pc = NextStrategy(f.pc)
           /\ g.outcome = f.outcome
           /\ g.raised # f.raised => g.screenshot = NoImage

\* A step of the fallback that ends in the error handler: no strategy had
\* given an image and the grab of the whole screen raised.
FailsOnlyWithFallback(t) ==
    LET f == call[t]
        g == call'[t]
    IN  WindowFlow(f) /\ f.pc = "m4" /\ g.outcome = "failure" =>
           /\ f.screenshot = NoImage
           /\ g.nmsg = "grab"

\* C21: an exception raised inside the composition capture, the back-buffer
\* copy or the corrected region grab is caught there and counts as no
\* result: capture_active_window goes on with the next strategy, and in the
\* course of the strategies it fails only when the full-screen grab fails.
C21_StrategyErrorsSwallowed ==
    [][\A t \in Threads : StrategyKeepsGoing(t) /\ FailsOnlyWithFallback(t)]_vars

\* All three strategies raised and the image to save is the fallback's.
C21_Witness ==
    \E t \in Threads :
        /\ WindowFlow(call[t])
        /\ call[t].pc = "save"
        /\ call[t].raised = {"printwindow", "bitblt", "region"}
        /\ call[t].screenshot.src = "fallback"

\* A pointer-up that ends a drag in the session of thread t; d is the
\* rectangle between the anchor and the point of the release.
ReleaseCommitsOrResumes(t) ==
    LET s == selector[t]
        n == selector'[t]
        d == session'[call[t].id].last_drag
    IN  InMainloop(t) /\ s.selecting /\ ~n.selecting =>
           /\ call'[t] = call[t]
           /\ n.root
           /\ IF d[3] > MinSelection /\ d[4] > MinSelection
              THEN /\ n.selected_area = d
                   /\ "confirmation" \in n.canvas
              ELSE /\ n.selected_area = s.selected_area
                   /\ n.canvas \cap SelectionTags = {}
                   /\ "instructions" \in n.canvas

\* C22: a pointer-up during a drag stores the rectangle as the selection if
\* and only if its width and its height both exceed 10; otherwise that
\* release stores nothing, the session goes on, and the overlay shows its
\* instructions again and waits for a new drag.
C22_ReleaseThreshold ==
    [][\A t \in Threads : ReleaseCommitsOrResumes(t)]_vars

\* A drag of exactly 10 pixels in width was released: nothing is stored and
\* the overlay waits.
C22_Witness ==
    \E t \in Threads :
        /\ InMainloop(t)
        /\ ~selector[t].selecting
        /\ session[call[t].id].last_drag # NoRegion
        /\ session[call[t].id].last_drag[3] = MinSelection
        /\ session[call[t].id].last_drag[4] > MinSelection
        /\ selector[t].selected_area = NoRegion
        /\ "instructions" \in selector[t].canvas

\* C23: whenever select_area has returned, by whatever path, the overlay
\* window of that selector is destroyed and its frozen and darkened images
\* are released.
SelectAreaReturned(t) ==
    call[t].op = "area" /\ session[call[t].id].ended # "none"

C23_ReturnedSelectorIsClean ==
    \A t \in Threads :
       SelectAreaReturned(t) =>
          /\ ~selector[t].root
          /\ selector[t].frozen_screenshot = NoSnapshot
          /\ ~selector[t].darkened_screenshot

\* C24: at every moment the history is, in detection order, a contiguous
\* most-recent part of the successful detections with adjacent detections of
\* the same process name collapsed to the first of them; an append that
\* makes it longer than 50 leaves exactly its 25 most recent entries.
RunStarts(seq) ==
    {i \in 1..Len(seq) : i = 1 \/ seq[i - 1].name # seq[i].name}

Collapse(seq) ==
    [k \in 1..Cardinality(RunStarts(seq)) |->
        seq[CHOOSE i \in RunStarts(seq) :
               Cardinality({j \in RunStarts(seq) : j <= i}) = k]]

IsSuffix(h, c) ==
    /\ Len(h) <= Len(c)
    /\ h = SubSeq(c, Len(c) - Len(h) + 1, Len(c))

HistoryIsRecentPart ==
    /\ IsSuffix(app_history, Collapse(detections))
    /\ detections # <<>> => app_history # <<>>

TrimKeepsKept ==
    Len(app_history) = MaxHistory /\ app_history' # app_history =>
       /\ Len(app_history') = KeptHistory
       /\ app_history' = SubSeq(Append(app_history, foreground'),
                                MaxHistory - KeptHistory + 2, MaxHistory + 1)

C25_UpdatesExclusive ==
    /\ \A t1, t2 \in Threads : InUpdate(t1) /\ InUpdate(t2) => t1 = t2
    /\ (\A t \in Threads : ~InUpdate(t)) =>
          /\ Len(app_history) <= MaxHistory
          /\ \A i \in 1..(Len(app_history) - 1) :
                app_history[i].name # app_history[i + 1].name

\* C26: a pass of the poll loop invokes the registered callbacks exactly when
\* the poll returned a window whose process name differs from the last name
\* the loop saw: then current_app is the new window before any callback
\* runs, and every registered callback is invoked once, in registration
\* order, with the new window; when the poll found no window or the same
\* name, nothing is invoked and current_app stays.
PollNotifies(l) ==
    LET before == monitor.loops[l]
        after == monitor'.loops[l]
        n == monitor'.notified
        callbacks == monitor.update_callbacks
    IN  before.pc = "poll" /\ after.pc = "sleep" =>
           IF after.current_app # NoApp
                 /\ after.current_app.name # before.last_app_name
           THEN /\ monitor'.current_app = after.current_app
                /\ Len(n) = Len(callbacks)
                /\ \A i \in 1..Len(n) :
                      /\ n[i].callback = callbacks[i]
                      /\ n[i].app = after.current_app
                      /\ n[i].current_app = after.current_app
           ELSE /\ n = <<>>
                /\ monitor'.current_app = monitor.current_app

C26_NotifiedOnChange == [][\A l \in LoopIds : PollNotifies(l)]_vars

\* The loop saw the editor, then the player: both callbacks were invoked
\* with the player, the first registered first.
C26_Witness ==
    /\ Len(monitor.notified) = 2
    /\ monitor.notified[1].callback = 1 /\ monitor.notified[2].callback = 2
    /\ monitor.notified[1].app = Player
    /\ monitor.current_app = Player
    /\ app_history = <<Editor, Player>>

\* C27: an exception raised by a callback does not end the poll loop and
\* does not keep the callbacks registered after it from being invoked for
\* the same change; the loop sleeps and goes on to its next poll.
SomeRaised == \E i \in 1..Len(monitor.notified) : monitor.notified[i].raised

RaiseDoesNotStop(l) ==
    LET n == monitor'.notified
    IN  monitor.loops[l].pc = "poll" /\ monitor'.loops[l].pc # "poll"
              /\ (\E i \in 1..Len(n) : n[i].raised) =>
           /\ monitor'.loops[l].pc = "sleep"
           /\ monitor'.monitoring = monitor.monitoring
           /\ Len(n) = Len(monitor.update_callbacks)

C27_CallbackErrorsContained ==
    /\ [][\A l \in LoopIds : RaiseDoesNotStop(l)]_vars
    /\ \A l \in LoopIds :
          (monitor.loops[l].pc = "sleep" /\ SomeRaised)
             ~> (monitor.loops[l].pc = "poll")

\* The first of two callbacks raised, the second was invoked all the same,
\* and the loop is at its next poll.
C27_Witness ==
    /\ Len(monitor.notified) = 2
    /\ monitor.notified[1].raised /\ ~monitor.notified[2].raised
    /\ \E l \in LoopIds : monitor.loops[l].pc = "poll"

\* C28: the lowering of the cleanup threshold by optimize_for_screenshots is
\* temporary: whatever the number and the timing of the captures, once the
\* restore threads of all of them have run, memory_threshold_mb is what it
\* was before the first capture.
C28_ThresholdRestored ==
    memory.restorers = <<>> =>
       memory.memory_threshold_mb = Megabytes(DefaultThreshold)

\* C29: a window is classified fullscreen if and only if its rectangle
\* matches the rectangle of its nearest monitor within 10 pixels in width,
\* height, left and top, or its style is borderless or popup.
GeometryMatches(w) ==
    /\ Abs(w.window_rect[3] - (w.monitor_rect[3] - w.monitor_rect[1])) <= 10
    /\ Abs(w.window_rect[4] - (w.monitor_rect[4] - w.monitor_rect[2])) <= 10
    /\ Abs(w.window_rect[1] - w.monitor_rect[1]) <= 10
    /\ Abs(w.window_rect[2] - w.monitor_rect[2]) <= 10

StyleMatches(w) == w.popup \/ ~w.border

C29_FullscreenIff ==
    probe.fn = "fullscreen" /\ ~probe.input.raises =>
       (probe.output <=> GeometryMatches(probe.input) \/ StyleMatches(probe.input))

\* C30: for every set of windows in any enumeration order,
\* _find_main_window_by_pid returns the largest of the windows that belong to
\* the process, are visible, have a title, have no parent and exceed
\* 100x100, and nothing when no window qualifies.
Qualifies(w, pid) ==
    /\ w.pid = pid
    /\ w.visible /\ w.titled /\ ~w.parent
    /\ w.width > 100 /\ w.height > 100

C30_ReturnsLargest ==
    probe.fn = "find_main_window" /\ probe.available
          /\ (\A i \in 1..Len(probe.input) : ~probe.input[i].raises) =>
       LET qualifying == {i \in 1..Len(probe.input) :
                             Qualifies(probe.input[i], probe.pid)}
       IN  IF qualifying = {} THEN probe.output = NoWindow
           ELSE \E i \in qualifying :
                   /\ probe.output = probe.input[i].hwnd
                   /\ \A j \in qualifying :
                         probe.input[j].width * probe.input[j].height
                            <= probe.input[i].width * probe.input[i].height

\* C31: for every rectangle that passes _validate_window_coordinates and
\* every screen size, the region the corrected region grab hands to the
\* screen grab lies within the screen and is not empty.
C31_RegionWithinScreen ==
    probe.fn = "region" /\ probe.valid =>
       /\ 0 <= probe.output[1] /\ 0 <= probe.output[2]
       /\ probe.output[3] > 0 /\ probe.output[4] > 0
       /\ probe.output[1] + probe.output[3] <= probe.screen[1]
       /\ probe.output[2] + probe.output[4] <= probe.screen[2]

\* A valid rectangle wider than the screen that starts left of it: the
\* region is the full width of the screen.
C31_Witness ==
    /\ probe.fn = "region" /\ probe.valid
    /\ probe.input[1] < 0 /\ probe.input[3] > probe.screen[1]
    /\ probe.output[1] = 0 /\ probe.output[3] = probe.screen[1]

\* C32: when the composed file name exists, the k-th candidate tried is the
\* composed base name with the single suffix _k, and the first candidate
\* that does not exist is returned.
C32_SingleSuffix ==
    probe.fn = "generate_filename" /\ probe.base \in probe.existing =>
       /\ \A k \in 1..Len(probe.tried) :
             /\ probe.tried[k] = [probe.base EXCEPT !.suffix = <<k>>]
             /\ k < Len(probe.tried) => probe.tried[k] \in probe.existing
       /\ probe.output = probe.tried[Len(probe.tried)]
       /\ probe.output \notin probe.existing

\* C33: with two or more callbacks of a kind registered, a capture whose
\* notifier threads have all run has invoked each registered callback of
\* that kind exactly once, whatever the scheduling of those threads.
InvokedOnce(c, kind) ==
    \A i \in 1..Len(CallbackList(kind)) :
       Cardinality({r \in Fired(c, kind) : r.cb = CallbackList(kind)[i]}) = 1

C33_EachCallbackOnce ==
    \A t \in Threads :
       call[t].pc = "done" /\ Delivered(call[t].id)
             /\ Len(capture_callbacks) >= 2 /\ Len(error_callbacks) >= 2 =>
          /\ call[t].outcome = "success" => InvokedOnce(call[t].id, "complete")
          /\ call[t].outcome = "failure" => InvokedOnce(call[t].id, "error")

\* C34: in a capture_app_direct(app_name) call that has passed its check,
\* the application that capture_active_window detected, captures and names
\* the file after is app_name, even when the foreground window changed
\* between the two detections.
C34_DirectCapturesNamedApp ==
    \A t \in Threads :
       call[t].op = "direct" /\ call[t].delegated
             /\ call[t].pc \in {"m1", "m2", "m3", "m4", "save"} =>
          Lower(call[t].current_app.name) = Lower(call[t].app_name)

\* C35: two capture_fullscreen calls that run at the same time in different
\* threads, each with a generated file name, never hold the same path to
\* save to, so neither overwrites the file of the other.
C35_ConcurrentPathsDiffer ==
    \A t, u \in Threads :
       t # u /\ call[t].op = "fullscreen" /\ call[u].op = "fullscreen"
             /\ call[t].pc = "save" /\ call[u].pc = "save" =>
          call[t].save_path # call[u].save_path

\* -------------------------------------------------------- SettingsManager
\* A Python dictionary is an object: two names can refer to the same one.
\* settings.heap maps each dictionary (and the monitored_apps list) to its
\* contents; a top-level configuration maps each section to its object, and
\* a nested dictionary is held by reference as well.
Sections ==
    {"hotkeys", "capture_settings", "ui_settings", "folders", "applications"}
DefaultRef(kind) == <<"default", kind>>
MergedRef(kind) == <<"merged", kind>>

\* self.default_config as __init__ builds it (the sections the setters
\* reach).
DefaultHotkeys ==
    [fullscreen_capture |-> "ctrl+shift+f", window_capture |-> "ctrl+shift+w",
     area_capture |-> "ctrl+shift+a", quick_capture |-> "ctrl+shift+q"]
DefaultCaptureSettings ==
    [image_format |-> "PNG", image_quality |-> 95, include_cursor |-> FALSE,
     auto_filename |-> TRUE, filename_pattern |-> "Screenshot_%Y%m%d_%H%M%S",
     delay_seconds |-> 0]
DefaultUiSettings ==
    [theme |-> "dark", show_notifications |-> TRUE, minimize_to_tray |-> TRUE,
     auto_start |-> FALSE, language |-> "fr"]
DefaultHeap ==
    (DefaultRef("hotkeys") :> DefaultHotkeys)
    @@ (DefaultRef("capture_settings") :> DefaultCaptureSettings)
    @@ (DefaultRef("ui_settings") :> DefaultUiSettings)
    @@ (DefaultRef("folders") :>
           [default_screenshots |-> "~/Pictures/SnapMaster",
            custom_folders |-> DefaultRef("custom_folders")])
    @@ (DefaultRef("custom_folders") :> EmptyDict)
    @@ (DefaultRef("applications") :>
           [app_folder_mapping |-> DefaultRef("app_folder_mapping"),
            monitored_apps |-> DefaultRef("monitored_apps")])
    @@ (DefaultRef("app_folder_mapping") :> EmptyDict)
    @@ (DefaultRef("monitored_apps") :> <<>>)
DefaultConfig == [k \in Sections |-> DefaultRef(k)]

\* What json.dump writes, and what a reader of every setting sees, for the
\* configuration whose sections are the objects cfg names.
Json(heap, cfg) ==
    [hotkeys |-> heap[cfg["hotkeys"]],
     capture_settings |-> heap[cfg["capture_settings"]],
     ui_settings |-> heap[cfg["ui_settings"]],
     folders |->
        [default_screenshots |-> heap[cfg["folders"]].default_screenshots,
         custom_folders |-> heap[heap[cfg["folders"]].custom_folders]],
     applications |->
        [app_folder_mapping |->
            heap[heap[cfg["applications"]].app_folder_mapping],
         monitored_apps |-> heap[heap[cfg["applications"]].monitored_apps]]]

\* The values __init__ writes into default_config.
BuiltinDefaults == Json(DefaultHeap, DefaultConfig)

\* d[k] = v on a dictionary.
Put(d, k, v) == [x \in DOMAIN d \cup {k} |-> IF x = k THEN v ELSE d[x]]
\* default.copy() followed by the loaded keys, for a dictionary of values.
MergeDict(default, loaded) ==
    [x \in DOMAIN default \cup DOMAIN loaded |->
        IF x \in DOMAIN loaded THEN loaded[x] ELSE default[x]]

\* merge_config(self.default_config, loaded): result = default.copy() keeps
\* the section objects of default_config; a section that the file holds is
\* replaced by a new dictionary (the recursive call copies again), and so
\* is a nested dictionary; the list of the file replaces the default list.
MergeConfig(heap, loaded) ==
    LET has(k) == k \in DOMAIN loaded
        flat(k) == IF has(k)
                   THEN MergedRef(k) :> MergeDict(heap[DefaultRef(k)], loaded[k])
                   ELSE EmptyDict
        folders == IF has("folders")
                   THEN (MergedRef("folders") :>
                            [default_screenshots |->
                                loaded["folders"].default_screenshots,
                             custom_folders |-> MergedRef("custom_folders")])
                        @@ (MergedRef("custom_folders") :>
                               MergeDict(heap[DefaultRef("custom_folders")],
                                         loaded["folders"].custom_folders))
                   ELSE EmptyDict
        apps == IF has("applications")
                THEN (MergedRef("applications") :>
                         [app_folder_mapping |-> MergedRef("app_folder_mapping"),
                          monitored_apps |-> MergedRef("monitored_apps")])
                     @@ (MergedRef("app_folder_mapping") :>
                            MergeDict(heap[DefaultRef("app_folder_mapping")],
                                      loaded["applications"].app_folder_mapping))
                     @@ (MergedRef("monitored_apps") :>
                            loaded["applications"].monitored_apps)
                ELSE EmptyDict
    IN  [heap |-> flat("hotkeys") @@ flat("capture_settings")
                    @@ flat("ui_settings") @@ folders @@ apps @@ heap,
         config |-> [k \in Sections |->
                        IF has(k) THEN MergedRef(k) ELSE DefaultRef(k)]]

\* load_config: the merge when the file exists, else default_config.copy(),
\* a new top-level dictionary over the same section objects.
LoadConfig(heap, file) ==
    IF file # NoFile THEN MergeConfig(heap, file)
    ELSE [heap |-> heap, config |-> DefaultConfig]

\* save_config, with a configuration file that can be written (a failed
\* write is logged and changes nothing in memory).
SaveConfig(s) == [s EXCEPT !.file = Json(s.heap, s.config)]

\* The files an earlier run can have left: none, a complete one written by
\* save_config, or one that a user cut down to the hotkeys.
SavedByEarlierRun ==
    [BuiltinDefaults EXCEPT !.hotkeys.window_capture = "f8"]
HotkeysOnly == [hotkeys |-> [window_capture |-> "f8"]]
ConfigFiles == {NoFile, SavedByEarlierRun, HotkeysOnly}

\* SettingsManager(config_file).
SettingsManagerInit(file) ==
    /\ ~settings.constructed
    /\ LET l == LoadConfig(DefaultHeap, file)
       IN  settings' = [constructed |-> TRUE, heap |-> l.heap,
                        config |-> l.config, file |-> file, last |-> "init"]
    /\ UNCHANGED settingsFrame

\* self.config[section][key] = value, then save_config.
SetEntry(s, ref, key, value, op) ==
    SaveConfig([s EXCEPT !.heap[ref] = Put(@, key, value), !.last = op])

SetHotkeyIn(s, action, hotkey) ==
    SetEntry(s, s.config["hotkeys"], action, hotkey, "set_hotkey")

set_hotkey(action, hotkey) ==
    /\ settings.constructed
    /\ settings' = SetHotkeyIn(settings, action, hotkey)
    /\ UNCHANGED settingsFrame

update_capture_setting(key, value) ==
    /\ settings.constructed
    /\ settings' = SetEntry(settings, settings.config["capture_settings"], key,
                            value, "update_capture_setting")
    /\ UNCHANGED settingsFrame

update_ui_setting(key, value) ==
    /\ settings.constructed
    /\ settings' = SetEntry(settings, settings.config["ui_settings"], key,
                            value, "update_ui_setting")
    /\ UNCHANGED settingsFrame

\* add_custom_folder(name, path); made: mkdir succeeded, else the except
\* branch returns False with nothing changed.
add_custom_folder(name, path, made) ==
    /\ settings.constructed
    /\ settings' =
          IF made
          THEN SetEntry(settings,
                        settings.heap[settings.config["folders"]].custom_folders,
                        name, path, "add_custom_folder")
          ELSE [settings EXCEPT !.last = "add_custom_folder"]
    /\ UNCHANGED settingsFrame

\* link_app_to_folder(app_name, folder_name).
link_app_to_folder(app_name, folder_name) ==
    /\ settings.constructed
    /\ LET apps == settings.heap[settings.config["applications"]]
           listed == settings.heap[apps.monitored_apps]
           monitored == IF \E i \in 1..Len(listed) : listed[i] = app_name
                        THEN listed ELSE Append(listed, app_name)
       IN  settings' =
              SaveConfig([settings EXCEPT
                            !.heap[apps.app_folder_mapping] =
                                Put(@, app_name, folder_name),
                            !.heap[apps.monitored_apps] = monitored,
                            !.last = "link_app_to_folder"])
    /\ UNCHANGED settingsFrame

\* reset_to_defaults: self.config = self.default_config.copy(), save_config.
reset_to_defaults ==
    /\ settings.constructed
    /\ settings' = SaveConfig([settings EXCEPT !.config = DefaultConfig,
                                               !.last = "reset_to_defaults"])
    /\ UNCHANGED settingsFrame

\* A SettingsManager over any of the files, then the setters and the reset
\* in any order.
NextSettings ==
    \/ \E file \in ConfigFiles : SettingsManagerInit(file)
    \/ \E hotkey \in {"f9", "ctrl+shift+f"} :
          set_hotkey("fullscreen_capture", hotkey)
    \/ \E value \in Formats : update_capture_setting("image_format", value)
    \/ \E value \in {"dark", "light"} : update_ui_setting("theme", value)
    \/ \E made \in BOOLEAN : add_custom_folder("work", "/w", made)
    \/ link_app_to_folder("a", "work")
    \/ reset_to_defaults

SpecSettings == InitProbe /\ [][NextSettings]_vars

\* C37: after reset_to_defaults every setting reads as its built-in default
\* value, whatever setter calls came before, and the built-in defaults that
\* default_config holds are the values __init__ wrote there.
C37_ResetRestoresDefaults ==
    /\ settings.last = "reset_to_defaults" =>
          Json(settings.heap, settings.config) = BuiltinDefaults
    /\ settings.constructed =>
          Json(settings.heap, DefaultConfig) = BuiltinDefaults

\* ------------------------------------------- HotkeyManager.update_hotkey
\* The longest callback list an update_hotkey call is made on.
MaxRefs == 3
\* _parse_hotkey accepts a key name and rejects the empty string.
NewHotkeys == {"f9", ""}
ParseHotkey(hotkey) == hotkey # ""

\* unregister_hotkey(action): with a hook, the hook and the whole callback
\* list of the action go; without one, nothing changes.
UnregisterHotkey(h, action) ==
    IF action \in h.active_hotkeys
    THEN [h EXCEPT !.active_hotkeys = @ \ {action},
                   !.hotkey_callbacks[action] = NoCallbacks]
    ELSE h

\* register_hotkey(action, hotkey, callback, override = True).
RegisterHotkeyOverride(h, action, hotkey, ref, hook_ok) ==
    IF ~ParseHotkey(hotkey) THEN h
    ELSE LET u == UnregisterHotkey(h, action)
         IN  [u EXCEPT
                 !.hotkey_callbacks[action] =
                     [present |-> TRUE, refs |-> Append(@.refs, ref)],
                 !.active_hotkeys = IF hook_ok THEN @ \cup {action} ELSE @]

\* The loop of update_hotkey over the copied list, from the i-th weak
\* reference on; a dead reference is skipped.
RECURSIVE ReRegister(_, _, _, _, _, _)
ReRegister(h, action, hotkey, callbacks, i, hook_ok) ==
    IF i > Len(callbacks) THEN h
    ELSE ReRegister(
             IF callbacks[i].alive
             THEN RegisterHotkeyOverride(h, action, hotkey, callbacks[i],
                                         hook_ok)
             ELSE h,
             action, hotkey, callbacks, i + 1, hook_ok)

LiveCallbacks(h, action) == SelectSeq(h.hotkey_callbacks[action].refs, IsAlive)

\* What update_hotkey returns: False for an action without a callback list,
\* else whether every register_hotkey call of the loop returned True.
UpdateHotkeyReturns(h, action, hotkey, hook_ok) ==
    /\ h.hotkey_callbacks[action].present
    /\ \/ LiveCallbacks(h, action) = <<>>
       \/ ParseHotkey(hotkey) /\ hook_ok

\* update_hotkey(action, new_hotkey); hook_ok: keyboard.add_hotkey accepts
\* the new hotkey.
update_hotkey(action, new_hotkey, hook_ok) ==
    /\ hotkeys.pc = "running"
    /\ settings.constructed
    /\ Len(hotkeys.hotkey_callbacks[action].refs) <= MaxRefs
    /\ IF hotkeys.hotkey_callbacks[action].present
       THEN /\ hotkeys' =
                  ReRegister(UnregisterHotkey(hotkeys, action), action,
                             new_hotkey, hotkeys.hotkey_callbacks[action].refs,
                             1, hook_ok)
            /\ settings' = SetHotkeyIn(settings, action, new_hotkey)
       ELSE UNCHANGED <<hotkeys, settings>>
    /\ UNCHANGED <<captureVars, probe, monitor, detections, updating, memory>>

\* add_action_callback(action, callback) by a component that keeps its
\* callback alive, once the hotkeys are registered.
PluginHandler(action) ==
    [target |-> "plugin_handler", action |-> action, alive |-> TRUE]
add_action_callback(action, ref) ==
    /\ hotkeys.pc = "running"
    /\ \A i \in 1..Len(hotkeys.hotkey_callbacks[action].refs) :
          hotkeys.hotkey_callbacks[action].refs[i].target # ref.target
    /\ hotkeys' = [hotkeys EXCEPT
                      !.hotkey_callbacks = AddActionCallback(@, action, ref)]
    /\ UNCHANGED <<now, hotkeyFrame>>

\* The start-up, then callbacks added to and the hotkey changed for one of
\* the actions, and triggers of its hotkey.
UpdatedActions == {"fullscreen_capture"}
NextUpdateHotkey ==
    \/ SettingsManagerInit(NoFile)
    \/ SetupHotkeyCallbacks
    \/ \E hook_ok \in BOOLEAN : StartHotkeyMonitoring(hook_ok)
    \/ \E action \in UpdatedActions : CollectGarbage(action)
    \/ \E action \in UpdatedActions :
          add_action_callback(action, GuiHandler(action))
    \/ \E action \in UpdatedActions :
          add_action_callback(action, PluginHandler(action))
    \/ \E action \in UpdatedActions, new_hotkey \in NewHotkeys,
          hook_ok \in BOOLEAN : update_hotkey(action, new_hotkey, hook_ok)
    \/ \E action \in UpdatedActions : TriggerHotkey(action)

SpecUpdateHotkey == InitProbe /\ [][NextUpdateHotkey]_vars

\* C36: an update_hotkey(action, new_hotkey) call that returns True for an
\* action with at least one live callback leaves the action with the live
\* callbacks it had before the call, in the same order, and with an active
\* hotkey.
C36_UpdateKeepsCallbacks ==
    [][\A action \in UpdatedActions, new_hotkey \in NewHotkeys,
          hook_ok \in BOOLEAN :
          update_hotkey(action, new_hotkey, hook_ok)
             /\ LiveCallbacks(hotkeys, action) # <<>>
             /\ UpdateHotkeyReturns(hotkeys, action, new_hotkey, hook_ok) =>
          /\ LiveCallbacks(hotkeys', action) = LiveCallbacks(hotkeys, action)
          /\ action \in hotkeys'.active_hotkeys]_vars

\* C38: total_captures = successful_captures + failed_captures at all
\* times, and a step adds to total_captures exactly the number of calls
\* that end in success or in failure in that step: one for each such call,
\* a capture_app_direct call that went on into capture_active_window
\* included, and none otherwise.
Ended(f) == f.outcome \in {"success", "failure"}
GdiStrategies == {"printwindow", "bitblt"}
GdiObjects == <<"hwnd_dc", "mfc_dc", "save_dc", "save_bitmap">>
InGdi(pc) == probe.fn \in GdiStrategies /\ ~probe.done /\ probe.pc = pc

\* The strategy returns: its local variables go away. finalizers: the
\* destructors of the win32ui wrappers free the objects they own; the window
\* DC is a number and has no destructor.
GdiReturn(image, finalizers) ==
    probe' = [probe EXCEPT !.done = TRUE, !.output = image,
                           !.held = IF finalizers THEN @ \cap {"hwnd_dc"}
                                    ELSE @]

GdiEnter(fn) ==
    /\ probe = NoProbe
    /\ probe' = [fn |-> fn, done |-> FALSE, pc |-> "find", hwnd |-> NoWindow,
                 held |-> {}, size |-> <<0, 0>>, output |-> NoImage]
    /\ UNCHANGED probeFrame

\* _find_main_window_by_pid: no window, or an exception, ends the call.
GdiFindWindow(hwnd) ==
    /\ InGdi("find")
    /\ IF hwnd = NoWindow THEN GdiReturn(NoImage, FALSE)
       ELSE probe' = [probe EXCEPT !.pc = "rect", !.hwnd = hwnd]
    /\ UNCHANGED probeFrame

\* GetWindowRect or GetClientRect, the size test, and the calls that show
\* or redraw the window (raised: one of them raised).
GdiWindowRect(size, raised) ==
    /\ InGdi("rect")
    /\ IF raised \/ size[1] <= 0 \/ size[2] <= 0
       THEN GdiReturn(NoImage, FALSE)
       ELSE probe' = [probe EXCEPT !.pc = "acquire", !.size = size]
    /\ UNCHANGED probeFrame

\* GetWindowDC / GetDC, CreateDCFromHandle, CreateCompatibleDC, and
\* CreateBitmap with CreateCompatibleBitmap and SelectObject: the next
\* object is acquired, or the call gives nothing (no DC) or raises, and the
\* strategy returns None from where it is.
GdiAcquire(ok, finalizers) ==
    /\ InGdi("acquire")
    /\ LET n == Cardinality(probe.held) + 1
       IN  IF ~ok THEN GdiReturn(NoImage, finalizers)
           ELSE probe' = [probe EXCEPT
                             !.held = @ \cup {GdiObjects[n]},
                             !.pc = IF n = Len(GdiObjects) THEN "copy"
                                    ELSE "acquire"]
    /\ UNCHANGED probeFrame

\* PrintWindow (twice if the first call returns 0) or BitBlt, then the
\* conversion and _is_image_valid: a valid image is returned at once; a
\* failed copy and an invalid image go on to the clean-up block.
GdiCopy(o, finalizers) ==
    /\ InGdi("copy")
    /\ o.kind \in {"api_failed", "error", "image"}
    /\ o.kind = "image" => o.size = probe.size
    /\ LET image == IF probe.fn = "printwindow"
                    THEN CaptureWindowPrintwindow(o)
                    ELSE CaptureWindowBitbltEnhanced(o)
       IN  IF o.kind = "error" THEN GdiReturn(NoImage, finalizers)
           ELSE IF image # NoImage THEN GdiReturn(image, finalizers)
           ELSE probe' = [probe EXCEPT !.pc = "cleanup"]
    /\ UNCHANGED probeFrame

\* The clean-up block: DeleteObject, DeleteDC, DeleteDC, ReleaseDC, one at
\* a time; after the last, return None.
GdiCleanup(raised, finalizers) ==
    /\ InGdi("cleanup")
    /\ LET n == Cardinality(probe.held)
       IN  IF raised THEN GdiReturn(NoImage, finalizers)
           ELSE IF n = 1
           THEN probe' = [probe EXCEPT !.held = {}, !.done = TRUE]
           ELSE probe' = [probe EXCEPT !.held = @ \ {GdiObjects[n]}]
    /\ UNCHANGED probeFrame

NextGdi ==
    \/ \E fn \in GdiStrategies : GdiEnter(fn)
    \/ \E hwnd \in {NoWindow, 1, 2} : GdiFindWindow(hwnd)
    \/ \E size \in WindowSizes \cup {<<0, 0>>}, raised \in BOOLEAN :
          GdiWindowRect(size, raised)
    \/ \E ok \in BOOLEAN, finalizers \in BOOLEAN : GdiAcquire(ok, finalizers)
    \/ \E o \in GdiOutcomes, finalizers \in BOOLEAN : GdiCopy(o, finalizers)
    \/ \E raised \in BOOLEAN, finalizers \in BOOLEAN :
          GdiCleanup(raised, finalizers)

SpecGdi == InitProbe /\ [][NextGdi]_vars

\* C39: when the composition-capture or the back-buffer strategy has
\* returned, with an image or with nothing, it holds none of the device
\* contexts and no bitmap it acquired.
C39_HandlesReleased ==
    probe.fn \in GdiStrategies /\ probe.done => probe.held = {}

====
